---- MODULE Spec2Model ----
(***************************************************************************)
(* LiRu robot controller: the wire codec (bluetooth.rs), the motor         *)
(* controller (motors.rs), the calibrated line sensors (sensors.rs) and    *)
(* the control loop of main.rs, as one state machine.                      *)
(*                                                                         *)
(* One iteration of the loop of main() is three steps, cut at the loop's   *)
(* suspension points: Poll (is_connected, try_read_command and the match   *)
(* on the command), Logic (the match on the mode, the loop counter and the  *)
(* periodic analog-debug message) and Sleep (the 10 ms timer).             *)
(***************************************************************************)
EXTENDS Integers, Sequences, FiniteSets, TLC

VARIABLES
    mode,            \* RobotMode: [tag] or [tag, start] for LineFollowerCalibrating
    sensors,         \* CalibratedSensors: min_readings, max_readings, thresholds, calibrated
    motors,          \* MotorController: the duty of TIM1 channels 1..4
    last_direction,  \* main.rs:97
    tele,            \* main.rs:100-104, the five telemetry scalars
    loop_counter,    \* main.rs:107
    rx,              \* bytes the peer has sent and the firmware has not read yet
    now,             \* Instant::now(), in whole seconds
    pc,              \* position in the loop body: "poll", "logic" or "sleep"
    conn,            \* what is_connected() returned in this iteration
    cmd,             \* what try_read_command returned in this iteration
    sent,            \* the messages written to the link in this iteration, in order
    mode0,           \* the mode at the start of this iteration
    tick,            \* what the per-mode logic did in this iteration
    calEnds,         \* CalibrationEnd messages written since the last CalibrationStart
    panicked,        \* an arithmetic overflow check has aborted the program
    bias,            \* the last non-zero value written to last_direction (0: none yet)
    call             \* the last direct call of a function: its name, arguments, result

vars == <<mode, sensors, motors, last_direction, tele, loop_counter, rx, now,
          pc, conn, cmd, sent, mode0, tick, calEnds, panicked, bias, call>>

----------------------------------------------------------------------------
(* Bounds of the model and constants of the program *)

MaxNow == 20
MaxLoop == 6
TimeStep == 5

SENSOR_COUNT == 8
ADC_MAX == 4095
DEFAULT_THRESHOLD == 2000
CALIBRATION_SECS == 10
PAYLOAD_TIMEOUT_MS == 50
KEY_SPEED == 70
DEBUG_PERIOD == 20
MaxDuty == 800

Channels == 0 .. (SENSOR_COUNT - 1)

Min2(a, b) == IF a < b THEN a ELSE b
Max2(a, b) == IF a > b THEN a ELSE b
Clamp(x, lo, hi) == Max2(lo, Min2(x, hi))

\* Rust integer casts
AsI8(b) == IF b % 256 >= 128 THEN (b % 256) - 256 ELSE b % 256
AsU8(x) == x % 256
AsU16(x) == x % 65536

\* Rust's / on signed integers truncates toward zero
TruncDiv(a, b) == IF a >= 0 THEN a \div b ELSE -((-a) \div b)

----------------------------------------------------------------------------
(* bluetooth.rs: commands, messages, try_read_byte, try_read_command *)

CMD_MOTOR == 1
CMD_STOP == 2
CMD_GET_SENSORS == 3
CMD_PING == 4
CMD_GET_RAW_SENSORS == 5
CMD_SET_MODE == 6
CMD_START == 7

MSG_SENSORS == 16
MSG_PONG == 17
MSG_CONNECTED == 18
MSG_RAW_SENSORS == 19
MSG_CALIBRATION_START == 21
MSG_CALIBRATION_END == 22
MSG_DEBUG_ANALOG == 23

NoCmd == [tag |-> "None"]
Motor(l, r) == [tag |-> "Motor", left |-> l, right |-> r]
Stop == [tag |-> "Stop"]
GetSensors == [tag |-> "GetSensors"]
GetRawSensors == [tag |-> "GetRawSensors"]
Ping == [tag |-> "Ping"]
SetMode(m) == [tag |-> "SetMode", m |-> m]
Start == [tag |-> "Start"]
Unknown(b) == [tag |-> "Unknown", byte |-> b]

\* The outcome of one uart.read under with_timeout: the delay in ms after
\* which the next byte is there, or ReadError for Ok(Err(_)).
ReadError == -1

\* try_read_byte: Some(byte) iff a byte is pending, the read did not fail and
\* it completed before the timeout; the byte is consumed only then.
TryReadByte(q, timeout_ms, outcome) ==
    IF q # <<>> /\ outcome # ReadError /\ outcome < timeout_ms
    THEN [some |-> TRUE, val |-> Head(q), rest |-> Tail(q)]
    ELSE [some |-> FALSE, val |-> 0, rest |-> q]

\* Mutant of TryReadCommand: the arms of PING and GET_RAW_SENSORS exchanged
TryReadCommandSwapped(q, timeout_ms, outs) ==
    LET b1 == TryReadByte(q, timeout_ms, outs[1])
        b2 == TryReadByte(b1.rest, PAYLOAD_TIMEOUT_MS, outs[2])
        b3 == TryReadByte(b2.rest, PAYLOAD_TIMEOUT_MS, outs[3])
    IN  IF ~b1.some THEN [cmd |-> NoCmd, rest |-> b1.rest]
        ELSE CASE b1.val = CMD_MOTOR ->
                    IF ~b2.some THEN [cmd |-> NoCmd, rest |-> b2.rest]
                    ELSE IF ~b3.some THEN [cmd |-> NoCmd, rest |-> b3.rest]
                    ELSE [cmd |-> Motor(AsI8(b2.val), AsI8(b3.val)), rest |-> b3.rest]
               [] b1.val = CMD_STOP -> [cmd |-> Stop, rest |-> b1.rest]
               [] b1.val = CMD_GET_SENSORS -> [cmd |-> GetSensors, rest |-> b1.rest]
               [] b1.val = CMD_GET_RAW_SENSORS -> [cmd |-> Ping, rest |-> b1.rest]
               [] b1.val = CMD_PING -> [cmd |-> GetRawSensors, rest |-> b1.rest]
               [] b1.val = CMD_SET_MODE ->
                    IF ~b2.some THEN [cmd |-> NoCmd, rest |-> b2.rest]
                    ELSE [cmd |-> SetMode(b2.val), rest |-> b2.rest]
               [] b1.val = CMD_START -> [cmd |-> Start, rest |-> b1.rest]
               [] OTHER -> [cmd |-> Unknown(b1.val), rest |-> b1.rest]

\* Mutant of TryReadCommand: the payload reads wait for timeout_ms, not for 50 ms
TryReadCommandTagTimeout(q, timeout_ms, outs) ==
    LET b1 == TryReadByte(q, timeout_ms, outs[1])
        b2 == TryReadByte(b1.rest, timeout_ms, outs[2])
        b3 == TryReadByte(b2.rest, timeout_ms, outs[3])
    IN  IF ~b1.some THEN [cmd |-> NoCmd, rest |-> b1.rest]
        ELSE CASE b1.val = CMD_MOTOR ->
                    IF ~b2.some THEN [cmd |-> NoCmd, rest |-> b2.rest]
                    ELSE IF ~b3.some THEN [cmd |-> NoCmd, rest |-> b3.rest]
                    ELSE [cmd |-> Motor(AsI8(b2.val), AsI8(b3.val)), rest |-> b3.rest]
               [] b1.val = CMD_STOP -> [cmd |-> Stop, rest |-> b1.rest]
               [] b1.val = CMD_GET_SENSORS -> [cmd |-> GetSensors, rest |-> b1.rest]
               [] b1.val = CMD_GET_RAW_SENSORS -> [cmd |-> GetRawSensors, rest |-> b1.rest]
               [] b1.val = CMD_PING -> [cmd |-> Ping, rest |-> b1.rest]
               [] b1.val = CMD_SET_MODE ->
                    IF ~b2.some THEN [cmd |-> NoCmd, rest |-> b2.rest]
                    ELSE [cmd |-> SetMode(b2.val), rest |-> b2.rest]
               [] b1.val = CMD_START -> [cmd |-> Start, rest |-> b1.rest]
               [] OTHER -> [cmd |-> Unknown(b1.val), rest |-> b1.rest]

\* Mutant of TryReadCommand: a dropped command's bytes are put back
TryReadCommandRestore(q, timeout_ms, outs) ==
    LET b1 == TryReadByte(q, timeout_ms, outs[1])
        b2 == TryReadByte(b1.rest, PAYLOAD_TIMEOUT_MS, outs[2])
        b3 == TryReadByte(b2.rest, PAYLOAD_TIMEOUT_MS, outs[3])
    IN  IF ~b1.some THEN [cmd |-> NoCmd, rest |-> q]
        ELSE CASE b1.val = CMD_MOTOR ->
                    IF ~b2.some THEN [cmd |-> NoCmd, rest |-> q]
                    ELSE IF ~b3.some THEN [cmd |-> NoCmd, rest |-> q]
                    ELSE [cmd |-> Motor(AsI8(b2.val), AsI8(b3.val)), rest |-> b3.rest]
               [] b1.val = CMD_STOP -> [cmd |-> Stop, rest |-> b1.rest]
               [] b1.val = CMD_GET_SENSORS -> [cmd |-> GetSensors, rest |-> b1.rest]
               [] b1.val = CMD_GET_RAW_SENSORS -> [cmd |-> GetRawSensors, rest |-> b1.rest]
               [] b1.val = CMD_PING -> [cmd |-> Ping, rest |-> b1.rest]
               [] b1.val = CMD_SET_MODE ->
                    IF ~b2.some THEN [cmd |-> NoCmd, rest |-> q]
                    ELSE [cmd |-> SetMode(b2.val), rest |-> b2.rest]
               [] b1.val = CMD_START -> [cmd |-> Start, rest |-> b1.rest]
               [] OTHER -> [cmd |-> Unknown(b1.val), rest |-> b1.rest]

\* try_read_command: the command (NoCmd for None) and the bytes left unread.
\* outs[1..3] are the outcomes of the up to three reads.
TryReadCommand(q, timeout_ms, outs) ==
    LET b1 == TryReadByte(q, timeout_ms, outs[1])
        b2 == TryReadByte(b1.rest, PAYLOAD_TIMEOUT_MS, outs[2])
        b3 == TryReadByte(b2.rest, PAYLOAD_TIMEOUT_MS, outs[3])
    IN  IF ~b1.some THEN [cmd |-> NoCmd, rest |-> b1.rest]
        ELSE CASE b1.val = CMD_MOTOR ->
                    IF ~b2.some THEN [cmd |-> NoCmd, rest |-> b2.rest]
                    ELSE IF ~b3.some THEN [cmd |-> NoCmd, rest |-> b3.rest]
                    ELSE [cmd |-> Motor(AsI8(b2.val), AsI8(b3.val)), rest |-> b3.rest]
               [] b1.val = CMD_STOP -> [cmd |-> Stop, rest |-> b1.rest]
               [] b1.val = CMD_GET_SENSORS -> [cmd |-> GetSensors, rest |-> b1.rest]
               [] b1.val = CMD_GET_RAW_SENSORS -> [cmd |-> GetRawSensors, rest |-> b1.rest]
               [] b1.val = CMD_PING -> [cmd |-> Ping, rest |-> b1.rest]
               [] b1.val = CMD_SET_MODE ->
                    IF ~b2.some THEN [cmd |-> NoCmd, rest |-> b2.rest]
                    ELSE [cmd |-> SetMode(b2.val), rest |-> b2.rest]
               [] b1.val = CMD_START -> [cmd |-> Start, rest |-> b1.rest]
               [] OTHER -> [cmd |-> Unknown(b1.val), rest |-> b1.rest]

RECURSIVE LeBytes(_, _)
LeBytes(readings, i) ==
    IF i = SENSOR_COUNT THEN <<>>
    ELSE <<readings[i] % 256, readings[i] \div 256>> \o LeBytes(readings, i + 1)

MsgSensors(sensor_byte) == <<MSG_SENSORS, sensor_byte>>
MsgRawSensors(readings) == <<MSG_RAW_SENSORS>> \o LeBytes(readings, 0)
MsgPong == <<MSG_PONG>>
MsgConnected == <<MSG_CONNECTED>>
MsgCalibrationStart == <<MSG_CALIBRATION_START>>
MsgCalibrationEnd == <<MSG_CALIBRATION_END>>
\* Mutant of MsgAnalogDebug: the two 16-bit fields low byte first
MsgAnalogDebugLE(position, intensity, steering, left_speed, right_speed) ==
    <<MSG_DEBUG_ANALOG,
      AsU16(position) % 256, AsU16(position) \div 256,
      AsU16(intensity) % 256, AsU16(intensity) \div 256,
      AsU8(steering), left_speed, right_speed>>

MsgAnalogDebug(position, intensity, steering, left_speed, right_speed) ==
    <<MSG_DEBUG_ANALOG,
      AsU16(position) \div 256, AsU16(position) % 256,
      AsU16(intensity) \div 256, AsU16(intensity) % 256,
      AsU8(steering), left_speed, right_speed>>

----------------------------------------------------------------------------
(* motors.rs: MotorController *)

PwmChannels == 1 .. 4
AllOff == [ch \in PwmChannels |-> 0]

FwdCh(motor) == IF motor = "Left" THEN 1 ELSE 3
RevCh(motor) == IF motor = "Left" THEN 2 ELSE 4

SetDuty(pwm, ch, duty) == [pwm EXCEPT ![ch] = duty]

RECURSIVE ApplyWrites(_, _)
ApplyWrites(pwm, writes) ==
    IF writes = <<>> THEN pwm
    ELSE ApplyWrites(SetDuty(pwm, Head(writes)[1], Head(writes)[2]), Tail(writes))

\* Mutant of SetMotorWrites: the driven channel is written before the
\* opposite channel is cleared
SetMotorWritesDutyFirst(motor, direction, speed_percent) ==
    LET speed == Min2(speed_percent, 100)
        duty == (MaxDuty * speed) \div 100
        keep_alive_duty == (MaxDuty * 10) \div 100
    IN  CASE direction = "Forward" -> << <<FwdCh(motor), duty>>, <<RevCh(motor), 0>> >>
          [] direction = "Reverse" -> << <<RevCh(motor), duty>>, <<FwdCh(motor), 0>> >>
          [] direction = "Stop" -> << <<FwdCh(motor), keep_alive_duty>>, <<RevCh(motor), 0>> >>

\* set_motor: the two register writes, in program order
SetMotorWrites(motor, direction, speed_percent) ==
    LET speed == Min2(speed_percent, 100)
        duty == (MaxDuty * speed) \div 100
        keep_alive_duty == (MaxDuty * 10) \div 100
    IN  CASE direction = "Forward" -> << <<RevCh(motor), 0>>, <<FwdCh(motor), duty>> >>
          [] direction = "Reverse" -> << <<FwdCh(motor), 0>>, <<RevCh(motor), duty>> >>
          [] direction = "Stop" -> << <<RevCh(motor), 0>>, <<FwdCh(motor), keep_alive_duty>> >>

SetMotor(pwm, motor, direction, speed_percent) ==
    ApplyWrites(pwm, SetMotorWrites(motor, direction, speed_percent))

\* speed_to_dir on an i8. -speed overflows for speed = -128: with overflow
\* checks the program panics, without them the negation wraps to -128, which
\* min(100) keeps and `as u8` turns into 128.
SpeedToDir(speed, checks) ==
    IF speed > 0 THEN [dir |-> "Forward", pct |-> AsU8(Min2(speed, 100)), panic |-> FALSE]
    ELSE IF speed < 0
         THEN [dir |-> "Reverse", pct |-> AsU8(Min2(AsI8(-speed), 100)),
               panic |-> checks /\ speed = -128]
         ELSE [dir |-> "Stop", pct |-> 0, panic |-> FALSE]

\* set_both: the new duties, or a panic before any register is written
SetBoth(pwm, left_speed, right_speed, checks) ==
    LET l == SpeedToDir(left_speed, checks)
        r == SpeedToDir(right_speed, checks)
    IN  IF l.panic \/ r.panic THEN [pwm |-> pwm, panic |-> TRUE]
        ELSE [pwm |-> SetMotor(SetMotor(pwm, "Left", l.dir, l.pct), "Right", r.dir, r.pct),
              panic |-> FALSE]

StopAll(pwm) == SetDuty(SetDuty(SetDuty(SetDuty(pwm, 1, 0), 2, 0), 3, 0), 4, 0)

Forward(pwm, speed_percent) ==
    SetMotor(SetMotor(pwm, "Left", "Forward", speed_percent), "Right", "Forward", speed_percent)
Backward(pwm, speed_percent) ==
    SetMotor(SetMotor(pwm, "Left", "Reverse", speed_percent), "Right", "Reverse", speed_percent)
TurnLeft(pwm, speed_percent) ==
    SetMotor(SetMotor(pwm, "Left", "Reverse", speed_percent), "Right", "Forward", speed_percent)
TurnRight(pwm, speed_percent) ==
    SetMotor(SetMotor(pwm, "Left", "Forward", speed_percent), "Right", "Reverse", speed_percent)

----------------------------------------------------------------------------
(* sensors.rs: CalibratedSensors *)

NewSensors ==
    [min_readings |-> [i \in Channels |-> ADC_MAX],
     max_readings |-> [i \in Channels |-> 0],
     thresholds   |-> [i \in Channels |-> DEFAULT_THRESHOLD],
     calibrated   |-> FALSE]

\* Mutant of ResetCalibration: the thresholds go back to the default too
ResetCalibrationAll(s) ==
    [s EXCEPT !.min_readings = [i \in Channels |-> ADC_MAX],
              !.max_readings = [i \in Channels |-> 0],
              !.thresholds = [i \in Channels |-> DEFAULT_THRESHOLD],
              !.calibrated = FALSE]

ResetCalibration(s) ==
    [s EXCEPT !.min_readings = [i \in Channels |-> ADC_MAX],
              !.max_readings = [i \in Channels |-> 0],
              !.calibrated = FALSE]

\* Mutant of UpdateCalibration: the maximum is compared only when the
\* minimum was not lowered (else if)
UpdateCalibrationElseIf(s, readings) ==
    [s EXCEPT !.min_readings = [i \in Channels |-> Min2(readings[i], s.min_readings[i])],
              !.max_readings = [i \in Channels |->
                                  IF readings[i] < s.min_readings[i] THEN s.max_readings[i]
                                  ELSE Max2(readings[i], s.max_readings[i])]]

UpdateCalibration(s, readings) ==
    [s EXCEPT !.min_readings = [i \in Channels |-> Min2(readings[i], s.min_readings[i])],
              !.max_readings = [i \in Channels |-> Max2(readings[i], s.max_readings[i])]]

\* finalize_calibration in u16: range * 40 overflows for range > 1638. With
\* overflow checks the loop panics at the first such channel (the thresholds
\* before it are written); without them the product wraps modulo 2^16.
SatSub(a, b) == IF a > b THEN a - b ELSE 0
CalRange(s, i) == SatSub(s.max_readings[i], s.min_readings[i])
CalOverflows(s, i) == CalRange(s, i) * 40 > 65535 \/
                      s.min_readings[i] + (AsU16(CalRange(s, i) * 40) \div 100) > 65535
CalThreshold(s, i) == AsU16(s.min_readings[i] + (AsU16(CalRange(s, i) * 40) \div 100))

FinalizeCalibration(s, checks) ==
    LET bad == {i \in Channels : CalOverflows(s, i)}
    IN  IF checks /\ bad # {}
        THEN LET first == CHOOSE i \in bad : \A j \in bad : i <= j
             IN  [sensors |-> [s EXCEPT !.thresholds =
                                  [i \in Channels |-> IF i < first THEN CalThreshold(s, i)
                                                      ELSE s.thresholds[i]]],
                  panic |-> TRUE]
        ELSE [sensors |-> [s EXCEPT !.thresholds = [i \in Channels |-> CalThreshold(s, i)],
                                    !.calibrated = TRUE],
              panic |-> FALSE]

RECURSIVE MaskFrom(_, _, _)
MaskFrom(readings, thresholds, i) ==
    IF i = SENSOR_COUNT THEN 0
    ELSE (IF readings[i] > thresholds[i] THEN 2 ^ i ELSE 0) + MaskFrom(readings, thresholds, i + 1)

ReadBinary(s, readings) == MaskFrom(readings, s.thresholds, 0)

\* The per-channel normalisation of read_line_position
Normalize(raw_val, min, max) ==
    IF raw_val <= min THEN 0
    ELSE IF raw_val >= max THEN 1000
    ELSE LET range == max - min
         IN  IF range = 0 THEN 0 ELSE ((raw_val - min) * 1000) \div range

RECURSIVE SumOver(_, _)
SumOver(f, i) == IF i = SENSOR_COUNT THEN 0 ELSE f[i] + SumOver(f, i + 1)

\* Mutant of ReadLinePosition: a total intensity of exactly 500 counts as lost
ReadLinePositionLostAt500(s, readings) ==
    LET val == [i \in Channels |-> Normalize(readings[i], s.min_readings[i], s.max_readings[i])]
        total_intensity == SumOver(val, 0)
        weighted_sum == SumOver([i \in Channels |-> val[i] * (i * 1000)], 0)
    IN  IF total_intensity <= 500 THEN [position |-> 0, intensity |-> 0]
        ELSE [position |-> TruncDiv(weighted_sum, total_intensity) - 3500,
              intensity |-> total_intensity]

ReadLinePosition(s, readings) ==
    LET val == [i \in Channels |-> Normalize(readings[i], s.min_readings[i], s.max_readings[i])]
        total_intensity == SumOver(val, 0)
        weighted_sum == SumOver([i \in Channels |-> val[i] * (i * 1000)], 0)
    IN  IF total_intensity < 500 THEN [position |-> 0, intensity |-> 0]
        ELSE [position |-> TruncDiv(weighted_sum, total_intensity) - 3500,
              intensity |-> total_intensity]

----------------------------------------------------------------------------
(* main.rs: the control loop *)

Car == [tag |-> "Car"]
LineFollowerIdle == [tag |-> "LineFollowerIdle"]
LineFollowerCalibrating(start_time) == [tag |-> "LineFollowerCalibrating", start |-> start_time]
LineFollowerRunning == [tag |-> "LineFollowerRunning"]

NewTele == [last_weighted_pos |-> 0, last_intensity |-> 0, last_steering |-> 0,
            last_left_speed |-> 0, last_right_speed |-> 0]

\* What one step of the loop reads and writes, as one record
Cur == [mode |-> mode, sensors |-> sensors, motors |-> motors, sent |-> sent,
        calEnds |-> calEnds, panicked |-> panicked,
        last_direction |-> last_direction, tele |-> tele, tick |-> tick]

\* main.rs:115-118
TimeoutMs(m) ==
    IF m.tag \in {"LineFollowerCalibrating", "LineFollowerRunning"} THEN 20 ELSE 100

\* Mutant of OnMotor: the command is ignored while the line follower runs
OnMotorNotRunning(cx, left, right, checks) ==
    IF cx.mode.tag = "LineFollowerRunning" THEN cx
    ELSE LET r == SetBoth(cx.motors, left, right, checks)
         IN  [cx EXCEPT !.motors = r.pwm, !.panicked = r.panic]

\* main.rs:123-125
OnMotor(cx, left, right, checks) ==
    LET r == SetBoth(cx.motors, left, right, checks)
    IN  [cx EXCEPT !.motors = r.pwm, !.panicked = r.panic]

\* Mutant of OnStop: a calibration is not aborted
OnStopRunningOnly(cx) ==
    [cx EXCEPT !.motors = StopAll(cx.motors),
               !.mode = IF cx.mode.tag = "LineFollowerRunning"
                        THEN LineFollowerIdle ELSE cx.mode]

\* main.rs:126-136
OnStop(cx) ==
    [cx EXCEPT !.motors = StopAll(cx.motors),
               !.mode = IF cx.mode.tag \in {"LineFollowerCalibrating", "LineFollowerRunning"}
                        THEN LineFollowerIdle ELSE cx.mode]

\* Mutant of OnSetMode: the switch to the line follower does not stop the motors
OnSetModeNoStop(cx, m) ==
    IF m = 1
    THEN [cx EXCEPT !.mode = LineFollowerIdle]
    ELSE [cx EXCEPT !.mode = Car, !.motors = StopAll(cx.motors)]

\* Mutant of OnSetMode: a mode byte other than 0 and 1 is ignored
OnSetModeStrict(cx, m) ==
    IF m = 1
    THEN [cx EXCEPT !.mode = LineFollowerIdle, !.motors = StopAll(cx.motors)]
    ELSE IF m = 0
         THEN [cx EXCEPT !.mode = Car, !.motors = StopAll(cx.motors)]
         ELSE cx

\* main.rs:137-147
OnSetMode(cx, m) ==
    IF m = 1
    THEN [cx EXCEPT !.mode = LineFollowerIdle, !.motors = StopAll(cx.motors)]
    ELSE [cx EXCEPT !.mode = Car, !.motors = StopAll(cx.motors)]

\* Mutant of OnStart: Start is honoured in every line-follower mode
OnStartAnyLineMode(cx, t) ==
    IF cx.mode # Car
    THEN [cx EXCEPT !.sensors = ResetCalibration(cx.sensors),
                    !.sent = Append(cx.sent, MsgCalibrationStart),
                    !.calEnds = 0,
                    !.mode = LineFollowerCalibrating(t)]
    ELSE cx

\* main.rs:148-155
OnStart(cx, t) ==
    IF cx.mode = LineFollowerIdle
    THEN [cx EXCEPT !.sensors = ResetCalibration(cx.sensors),
                    !.sent = Append(cx.sent, MsgCalibrationStart),
                    !.calEnds = 0,
                    !.mode = LineFollowerCalibrating(t)]
    ELSE cx

\* Mutant of OnGetSensors: no answer while the line follower calibrates or runs
OnGetSensorsWhenIdle(cx, readings) ==
    IF cx.mode.tag \in {"LineFollowerCalibrating", "LineFollowerRunning"} THEN cx
    ELSE [cx EXCEPT !.sent = Append(cx.sent, MsgSensors(ReadBinary(cx.sensors, readings)))]

\* main.rs:156-162
OnGetSensors(cx, readings) ==
    [cx EXCEPT !.sent = Append(cx.sent, MsgSensors(ReadBinary(cx.sensors, readings)))]

\* main.rs:163-168
OnGetRawSensors(cx, readings) ==
    [cx EXCEPT !.sent = Append(cx.sent, MsgRawSensors(readings))]

\* main.rs:169-171
OnPing(cx) == [cx EXCEPT !.sent = Append(cx.sent, MsgPong)]

\* Mutant of OnUnknown: the keys are matched in lower case only
OnUnknownLowerCase(cx, byte, readings) ==
    IF cx.mode = Car
    THEN CASE byte = 119 -> [cx EXCEPT !.motors = Forward(cx.motors, KEY_SPEED)]
           [] byte = 115 -> [cx EXCEPT !.motors = Backward(cx.motors, KEY_SPEED)]
           [] byte = 97  -> [cx EXCEPT !.motors = TurnLeft(cx.motors, KEY_SPEED)]
           [] byte = 100 -> [cx EXCEPT !.motors = TurnRight(cx.motors, KEY_SPEED)]
           [] byte \in {113, 32} -> [cx EXCEPT !.motors = StopAll(cx.motors)]
           [] byte = 114 -> [cx EXCEPT !.sent = Append(cx.sent, MsgRawSensors(readings))]
           [] OTHER -> cx
    ELSE cx

\* main.rs:172-202; the bytes are ASCII
OnUnknown(cx, byte, readings) ==
    IF cx.mode = Car
    THEN CASE byte \in {87, 119} -> [cx EXCEPT !.motors = Forward(cx.motors, KEY_SPEED)]
           [] byte \in {83, 115} -> [cx EXCEPT !.motors = Backward(cx.motors, KEY_SPEED)]
           [] byte \in {65, 97}  -> [cx EXCEPT !.motors = TurnLeft(cx.motors, KEY_SPEED)]
           [] byte \in {68, 100} -> [cx EXCEPT !.motors = TurnRight(cx.motors, KEY_SPEED)]
           [] byte \in {81, 113, 32} -> [cx EXCEPT !.motors = StopAll(cx.motors)]
           [] byte \in {82, 114} -> [cx EXCEPT !.sent = Append(cx.sent, MsgRawSensors(readings))]
           [] OTHER -> cx
    ELSE cx

\* main.rs:122-203, the match on the command
ProcessCommand(cx, c, t, readings, checks) ==
    CASE c.tag = "Motor" -> OnMotor(cx, c.left, c.right, checks)
      [] c.tag = "Stop" -> OnStop(cx)
      [] c.tag = "SetMode" -> OnSetMode(cx, c.m)
      [] c.tag = "Start" -> OnStart(cx, t)
      [] c.tag = "GetSensors" -> OnGetSensors(cx, readings)
      [] c.tag = "GetRawSensors" -> OnGetRawSensors(cx, readings)
      [] c.tag = "Ping" -> OnPing(cx)
      [] c.tag = "Unknown" -> OnUnknown(cx, c.byte, readings)

\* main.rs:223-233
\* Mutant of CalibratingTick: the ticks before the deadline do not sample
CalibratingTickNoSampling(cx, t, readings, checks) ==
    IF t - cx.mode.start < CALIBRATION_SECS
    THEN [cx EXCEPT !.tick = "update"]
    ELSE LET f == FinalizeCalibration(cx.sensors, checks)
         IN  IF f.panic
             THEN [cx EXCEPT !.sensors = f.sensors, !.panicked = TRUE, !.tick = "finalize"]
             ELSE [cx EXCEPT !.sensors = f.sensors,
                             !.sent = Append(cx.sent, MsgCalibrationEnd),
                             !.calEnds = cx.calEnds + 1,
                             !.mode = LineFollowerRunning,
                             !.tick = "finalize"]

CalibratingTick(cx, t, readings, checks) ==
    IF t - cx.mode.start < CALIBRATION_SECS
    THEN [cx EXCEPT !.sensors = UpdateCalibration(cx.sensors, readings), !.tick = "update"]
    ELSE LET f == FinalizeCalibration(cx.sensors, checks)
         IN  IF f.panic
             THEN [cx EXCEPT !.sensors = f.sensors, !.panicked = TRUE, !.tick = "finalize"]
             ELSE [cx EXCEPT !.sensors = f.sensors,
                             !.sent = Append(cx.sent, MsgCalibrationEnd),
                             !.calEnds = cx.calEnds + 1,
                             !.mode = LineFollowerRunning,
                             !.tick = "finalize"]

\* Mutant of LostLine: the search follows the last non-zero direction
LostLineLastNonZero(cx) ==
    [cx EXCEPT !.motors = IF bias < 0 THEN TurnLeft(cx.motors, 55)
                          ELSE IF bias > 0 THEN TurnRight(cx.motors, 55)
                          ELSE Forward(cx.motors, 50),
               !.tick = "lost"]

\* main.rs:250-256
LostLine(cx) ==
    [cx EXCEPT !.motors = IF cx.last_direction < 0 THEN TurnLeft(cx.motors, 55)
                          ELSE IF cx.last_direction > 0 THEN TurnRight(cx.motors, 55)
                          ELSE Forward(cx.motors, 50),
               !.tick = "lost"]

\* Mutant of FoundLine: the steering is rounded down, not toward zero
FoundLineFloor(cx, position, checks) ==
    LET abs_pos == IF position < 0 THEN -position ELSE position
        steering == position \div 100
        base_speed == IF abs_pos < 500 THEN 65 ELSE IF abs_pos < 1500 THEN 55 ELSE 50
        left_speed == AsI8(Clamp(base_speed + steering, 0, 75))
        right_speed == AsI8(Clamp(base_speed - steering, 0, 75))
        r == SetBoth(cx.motors, left_speed, right_speed, checks)
    IN  IF r.panic THEN [cx EXCEPT !.panicked = TRUE, !.tick = "found"]
        ELSE [cx EXCEPT !.motors = r.pwm,
                        !.tele.last_steering = steering,
                        !.tele.last_left_speed = AsU8(left_speed),
                        !.tele.last_right_speed = AsU8(right_speed),
                        !.last_direction = IF steering > 5 THEN 1
                                           ELSE IF steering < -5 THEN -1 ELSE 0,
                        !.tick = "found"]

\* Mutant of FoundLine: the speeds are capped at 100, not at 75
FoundLineCap100(cx, position, checks) ==
    LET abs_pos == IF position < 0 THEN -position ELSE position
        steering == TruncDiv(position, 100)
        base_speed == IF abs_pos < 500 THEN 65 ELSE IF abs_pos < 1500 THEN 55 ELSE 50
        left_speed == AsI8(Clamp(base_speed + steering, 0, 100))
        right_speed == AsI8(Clamp(base_speed - steering, 0, 100))
        r == SetBoth(cx.motors, left_speed, right_speed, checks)
    IN  IF r.panic THEN [cx EXCEPT !.panicked = TRUE, !.tick = "found"]
        ELSE [cx EXCEPT !.motors = r.pwm,
                        !.tele.last_steering = steering,
                        !.tele.last_left_speed = AsU8(left_speed),
                        !.tele.last_right_speed = AsU8(right_speed),
                        !.last_direction = IF steering > 5 THEN 1
                                           ELSE IF steering < -5 THEN -1 ELSE 0,
                        !.tick = "found"]

\* main.rs:257-304
FoundLine(cx, position, checks) ==
    LET abs_pos == IF position < 0 THEN -position ELSE position
        steering == TruncDiv(position, 100)
        base_speed == IF abs_pos < 500 THEN 65 ELSE IF abs_pos < 1500 THEN 55 ELSE 50
        left_speed == AsI8(Clamp(base_speed + steering, 0, 75))
        right_speed == AsI8(Clamp(base_speed - steering, 0, 75))
        r == SetBoth(cx.motors, left_speed, right_speed, checks)
    IN  IF r.panic THEN [cx EXCEPT !.panicked = TRUE, !.tick = "found"]
        ELSE [cx EXCEPT !.motors = r.pwm,
                        !.tele.last_steering = steering,
                        !.tele.last_left_speed = AsU8(left_speed),
                        !.tele.last_right_speed = AsU8(right_speed),
                        !.last_direction = IF steering > 5 THEN 1
                                           ELSE IF steering < -5 THEN -1 ELSE 0,
                        !.tick = "found"]

\* Mutant of RunningTick: a lost line leaves the motors as they are
RunningTickLostCoasts(cx, readings, checks) ==
    LET lp == ReadLinePosition(cx.sensors, readings)
        c1 == [cx EXCEPT !.tele.last_weighted_pos = lp.position,
                         !.tele.last_intensity = lp.intensity]
    IN  IF lp.intensity = 0 THEN [c1 EXCEPT !.tick = "lost"]
        ELSE FoundLine(c1, lp.position, checks)

\* main.rs:234-305
RunningTick(cx, readings, checks) ==
    LET lp == ReadLinePosition(cx.sensors, readings)
        c1 == [cx EXCEPT !.tele.last_weighted_pos = lp.position,
                         !.tele.last_intensity = lp.intensity]
    IN  IF lp.intensity = 0 THEN LostLine(c1) ELSE FoundLine(c1, lp.position, checks)

\* Mutant of ModeLogic: the match is on the mode read before the command
ModeLogicStale(cx, t, readings, checks) ==
    CASE mode0.tag = "Car" -> [cx EXCEPT !.tick = "car"]
      [] mode0.tag = "LineFollowerIdle" -> [cx EXCEPT !.tick = "idle"]
      [] mode0.tag = "LineFollowerCalibrating" ->
            CalibratingTick([cx EXCEPT !.mode = mode0], t, readings, checks)
      [] mode0.tag = "LineFollowerRunning" -> RunningTick(cx, readings, checks)

\* main.rs:210-306, the match on the mode
ModeLogic(cx, t, readings, checks) ==
    CASE cx.mode.tag = "Car" -> [cx EXCEPT !.tick = "car"]
      [] cx.mode.tag = "LineFollowerIdle" -> [cx EXCEPT !.tick = "idle"]
      [] cx.mode.tag = "LineFollowerCalibrating" -> CalibratingTick(cx, t, readings, checks)
      [] cx.mode.tag = "LineFollowerRunning" -> RunningTick(cx, readings, checks)

\* Mutant of Telemetry: the message is sent in every mode
TelemetryAnyMode(cx, counter) ==
    IF counter % DEBUG_PERIOD = 0
    THEN [cx EXCEPT !.sent = Append(cx.sent,
              MsgAnalogDebug(cx.tele.last_weighted_pos, cx.tele.last_intensity,
                             cx.tele.last_steering, cx.tele.last_left_speed,
                             cx.tele.last_right_speed))]
    ELSE cx

\* main.rs:308-322, with counter the loop counter after its increment
Telemetry(cx, counter) ==
    IF cx.mode = LineFollowerRunning /\ counter % DEBUG_PERIOD = 0
    THEN [cx EXCEPT !.sent = Append(cx.sent,
              MsgAnalogDebug(cx.tele.last_weighted_pos, cx.tele.last_intensity,
                             cx.tele.last_steering, cx.tele.last_left_speed,
                             cx.tele.last_right_speed))]
    ELSE cx

----------------------------------------------------------------------------
(* Inputs *)

\* Sensor frames: white floor, and a dark line under sensor 7
FrameOf(lit, level) == [i \in Channels |-> IF i \in lit THEN level ELSE 300]
Frames == {FrameOf({}, 300), FrameOf({6}, 3000)}

\* Outcomes of one read: in time for every timeout, late for the 20 ms tag
\* timeout only, late for the payload timeout too, late for all, a read error.
ReadOutcomes == {0, 30, 70, 150, ReadError}

\* What the peer sends
Packets ==
    { <<CMD_MOTOR, 50, 206>>, <<CMD_MOTOR, 128, 0>>, <<CMD_STOP>>, <<CMD_GET_SENSORS>>,
      <<CMD_PING>>, <<CMD_GET_RAW_SENSORS>>, <<CMD_SET_MODE, 0>>, <<CMD_SET_MODE, 1>>,
      <<CMD_SET_MODE, 2>>, <<CMD_START>>, <<119>>, <<87>>, <<115>>, <<83>>, <<97>>, <<65>>,
      <<100>>, <<68>>, <<113>>, <<81>>, <<32>>, <<114>>, <<153>> }

----------------------------------------------------------------------------
(* The state machine *)

NoCall == [fn |-> "none"]

Init ==
    /\ mode = Car
    /\ sensors = NewSensors
    /\ motors = AllOff
    /\ last_direction = 0
    /\ tele = NewTele
    /\ loop_counter = 0
    /\ rx = <<>>
    /\ now = 0
    /\ pc = "poll"
    /\ conn = FALSE
    /\ cmd = NoCmd
    /\ sent = <<>>
    /\ mode0 = Car
    /\ tick = "none"
    /\ calEnds = 0
    /\ panicked = FALSE
    /\ bias = 0
    /\ call = NoCall

Store(cx) ==
    /\ mode' = cx.mode
    /\ sensors' = cx.sensors
    /\ motors' = cx.motors
    /\ sent' = cx.sent
    /\ calEnds' = cx.calEnds
    /\ panicked' = cx.panicked
    /\ last_direction' = cx.last_direction
    /\ tele' = cx.tele
    /\ tick' = cx.tick
    /\ bias' = IF cx.last_direction # 0 THEN cx.last_direction ELSE bias

\* The peer sends a packet. It waits until the previous one has been read; as
\* only Poll reads rx, a packet sent during an iteration is one sent before
\* the next Poll.
Receive(p) ==
    /\ ~panicked
    /\ pc = "poll"
    /\ rx = <<>>
    /\ rx' = p
    /\ UNCHANGED <<mode, sensors, motors, last_direction, tele, loop_counter, now,
                   pc, conn, cmd, sent, mode0, tick, calEnds, panicked, bias, call>>

\* Mutant of PollWith: the command is read whatever is_connected returns
PollWithUnchecked(c, outs, readings, checks) ==
    /\ ~panicked
    /\ pc = "poll"
    /\ conn' = c
    /\ mode0' = mode
    /\ LET r == TryReadCommand(rx, TimeoutMs(mode), outs)
       IN  /\ rx' = r.rest
           /\ cmd' = r.cmd
           /\ Store(IF r.cmd = NoCmd THEN Cur
                    ELSE ProcessCommand(Cur, r.cmd, now, readings, checks))
    /\ pc' = "logic"
    /\ UNCHANGED <<loop_counter, now, call>>

\* main.rs:112-207
PollWith(c, outs, readings, checks) ==
    /\ ~panicked
    /\ pc = "poll"
    /\ conn' = c
    /\ mode0' = mode
    /\ IF c
       THEN LET r == TryReadCommand(rx, TimeoutMs(mode), outs)
            IN  /\ rx' = r.rest
                /\ cmd' = r.cmd
                /\ Store(IF r.cmd = NoCmd THEN Cur
                         ELSE ProcessCommand(Cur, r.cmd, now, readings, checks))
       ELSE /\ rx' = rx
            /\ cmd' = NoCmd
            /\ Store(Cur)
    /\ pc' = "logic"
    /\ UNCHANGED <<loop_counter, now, call>>

\* The inputs of one Poll. Reads that try_read_command does not reach, a
\* frame no handler samples and an overflow check no handler meets are fixed,
\* so that each behaviour of the code is generated once.
ReadsNeeded(q) ==
    IF q = <<>> THEN 0
    ELSE IF Head(q) = CMD_MOTOR THEN 3
    ELSE IF Head(q) = CMD_SET_MODE THEN 2 ELSE 1

PollOutcomes(c, q) ==
    {outs \in [1 .. 3 -> ReadOutcomes] :
        \A j \in 1 .. 3 : (~c \/ j > ReadsNeeded(q)) => outs[j] = 0}

AnyFrame == FrameOf({}, 300)

PollFrames(c, q) ==
    IF c /\ q # <<>> /\ Head(q) \in {CMD_GET_SENSORS, CMD_GET_RAW_SENSORS, 82, 114}
    THEN Frames ELSE {AnyFrame}

PollChecks(c, q) == IF c /\ q # <<>> /\ Head(q) = CMD_MOTOR THEN BOOLEAN ELSE {FALSE}

Poll ==
    \E c \in BOOLEAN :
        \E outs \in PollOutcomes(c, rx), readings \in PollFrames(c, rx),
           checks \in PollChecks(c, rx) :
            PollWith(c, outs, readings, checks)

\* main.rs:210-322
LogicWith(readings, checks, bound) ==
    /\ ~panicked
    /\ pc = "logic"
    /\ loop_counter < bound
    /\ LET cx == ModeLogic(Cur, now, readings, checks)
       IN  IF cx.panicked
           THEN Store(cx) /\ UNCHANGED loop_counter
           ELSE Store(Telemetry(cx, loop_counter + 1)) /\ loop_counter' = loop_counter + 1
    /\ pc' = "sleep"
    /\ UNCHANGED <<rx, now, conn, cmd, mode0, call>>

LogicFrames == IF mode.tag \in {"LineFollowerCalibrating", "LineFollowerRunning"}
               THEN Frames ELSE {AnyFrame}

LogicChecks == IF mode.tag = "LineFollowerCalibrating" THEN BOOLEAN ELSE {FALSE}

Logic == \E readings \in LogicFrames, checks \in LogicChecks : LogicWith(readings, checks, MaxLoop)

\* main.rs:326; the iteration's locals go out of scope
Sleep(d) ==
    /\ ~panicked
    /\ pc = "sleep"
    /\ now + d <= MaxNow
    /\ now' = now + d
    /\ pc' = "poll"
    /\ conn' = FALSE
    /\ cmd' = NoCmd
    /\ sent' = <<>>
    /\ mode0' = mode
    /\ tick' = "none"
    /\ UNCHANGED <<mode, sensors, motors, last_direction, tele, loop_counter, rx,
                   calEnds, panicked, bias, call>>

Next ==
    \/ \E p \in Packets : Receive(p)
    \/ Poll
    \/ Logic
    \/ \E d \in {0, TimeStep} : Sleep(d)

Spec == Init /\ [][Next]_vars

\* One poll of every tag byte with two payload bytes behind it
PayloadBytes == {0, 1, 50, 100, 127, 128, 156, 255}

InitCodec ==
    /\ mode = Car
    /\ sensors = NewSensors
    /\ motors = AllOff
    /\ last_direction = 0
    /\ tele = NewTele
    /\ loop_counter = 0
    /\ rx \in {<<t, a, b>> : t \in 0 .. 255, a \in PayloadBytes, b \in PayloadBytes}
    /\ now = 0
    /\ pc = "poll"
    /\ conn = FALSE
    /\ cmd = NoCmd
    /\ sent = <<>>
    /\ mode0 = Car
    /\ tick = "none"
    /\ calEnds = 0
    /\ panicked = FALSE
    /\ bias = 0
    /\ call = NoCall

NextCodec == Poll

SpecCodec == InitCodec /\ [][NextCodec]_vars

\* The program's own variables, which a direct call of a function leaves
Prog == <<mode, sensors, motors, last_direction, tele, loop_counter, rx, now,
          pc, conn, cmd, sent, mode0, tick, calEnds, panicked, bias>>

\* bluetooth.rs:117-182, each function called once on a fresh link: ret is what
\* it writes
RawFrames ==
    {FrameOf({}, 300), FrameOf({6}, 3000), [i \in Channels |-> i * 585],
     [i \in Channels |-> 4095 - i * 511], [i \in Channels |-> 249 + i]}
DebugPositions == {-32768, -3500, -167, -1, 0, 255, 256, 3500, 32767}
DebugIntensities == {0, 255, 256, 500, 8000, 65535}
DebugSteerings == {-128, -35, -1, 0, 35, 127}
DebugSpeeds == {0, 25, 75, 255}

SendSensors(sensor_byte) ==
    /\ call = NoCall
    /\ call' = [fn |-> "send_sensors", args |-> <<sensor_byte>>, ret |-> MsgSensors(sensor_byte)]
    /\ UNCHANGED Prog

SendRawSensors(readings) ==
    /\ call = NoCall
    /\ call' = [fn |-> "send_raw_sensors", args |-> <<readings>>, ret |-> MsgRawSensors(readings)]
    /\ UNCHANGED Prog

SendPong ==
    /\ call = NoCall
    /\ call' = [fn |-> "send_pong", args |-> <<>>, ret |-> MsgPong]
    /\ UNCHANGED Prog

SendConnected ==
    /\ call = NoCall
    /\ call' = [fn |-> "send_connected", args |-> <<>>, ret |-> MsgConnected]
    /\ UNCHANGED Prog

SendCalibrationStart ==
    /\ call = NoCall
    /\ call' = [fn |-> "send_calibration_start", args |-> <<>>, ret |-> MsgCalibrationStart]
    /\ UNCHANGED Prog

SendCalibrationEnd ==
    /\ call = NoCall
    /\ call' = [fn |-> "send_calibration_end", args |-> <<>>, ret |-> MsgCalibrationEnd]
    /\ UNCHANGED Prog

SendAnalogDebug(position, intensity, steering, left_speed, right_speed) ==
    /\ call = NoCall
    /\ call' = [fn |-> "send_analog_debug",
                args |-> <<position, intensity, steering, left_speed, right_speed>>,
                ret |-> MsgAnalogDebug(position, intensity, steering, left_speed, right_speed)]
    /\ UNCHANGED Prog

NextEncode ==
    \/ \E b \in 0 .. 255 : SendSensors(b)
    \/ \E readings \in RawFrames : SendRawSensors(readings)
    \/ SendPong
    \/ SendConnected
    \/ SendCalibrationStart
    \/ SendCalibrationEnd
    \/ \E p \in DebugPositions, i \in DebugIntensities, st \in DebugSteerings,
          l \in DebugSpeeds, r \in DebugSpeeds : SendAnalogDebug(p, i, st, l, r)

SpecEncode == Init /\ [][NextEncode]_vars

\* motors.rs:138-152, set_both and stop_all called once on a controller whose
\* duties are those new(), forward(70) or backward(70) left
StartDuties == {AllOff, Forward(AllOff, KEY_SPEED), Backward(AllOff, KEY_SPEED)}
I8 == -128 .. 127
SpeedSample == {-128, -127, -101, -100, -99, -1, 0, 1, 50, 100, 101, 127}

InitMotors ==
    /\ Init
    /\ motors \in StartDuties

CallSetBoth(left_speed, right_speed, checks) ==
    /\ call = NoCall
    /\ LET r == SetBoth(motors, left_speed, right_speed, checks)
       IN  motors' = r.pwm /\ panicked' = r.panic
    /\ call' = [fn |-> "set_both", args |-> <<left_speed, right_speed>>, ret |-> <<>>]
    /\ UNCHANGED <<mode, sensors, last_direction, tele, loop_counter, rx, now,
                   pc, conn, cmd, sent, mode0, tick, calEnds, bias>>

CallStopAll ==
    /\ call = NoCall
    /\ motors' = StopAll(motors)
    /\ call' = [fn |-> "stop_all", args |-> <<>>, ret |-> <<>>]
    /\ UNCHANGED <<mode, sensors, last_direction, tele, loop_counter, rx, now,
                   pc, conn, cmd, sent, mode0, tick, calEnds, panicked, bias>>

NextMotors ==
    \/ \E l \in I8, r \in SpeedSample, checks \in BOOLEAN : CallSetBoth(l, r, checks)
    \/ \E l \in SpeedSample, r \in I8, checks \in BOOLEAN : CallSetBoth(l, r, checks)
    \/ CallStopAll

SpecMotors == InitMotors /\ [][NextMotors]_vars

\* motors.rs:100-176, the operations of MotorController called one after
\* another on a new controller, each executed one register write at a time:
\* call.writes holds the writes of the running operation still to be made
PercentSample == {0, 1, 10, 50, 55, 100, 101, 255}
Directions == {"Forward", "Reverse", "Stop"}

SetBothWrites(left_speed, right_speed, checks) ==
    LET l == SpeedToDir(left_speed, checks)
        r == SpeedToDir(right_speed, checks)
    IN  SetMotorWrites("Left", l.dir, l.pct) \o SetMotorWrites("Right", r.dir, r.pct)
StopAllWrites == << <<1, 0>>, <<2, 0>>, <<3, 0>>, <<4, 0>> >>
ForwardWrites(speed_percent) ==
    SetMotorWrites("Left", "Forward", speed_percent) \o SetMotorWrites("Right", "Forward", speed_percent)
BackwardWrites(speed_percent) ==
    SetMotorWrites("Left", "Reverse", speed_percent) \o SetMotorWrites("Right", "Reverse", speed_percent)
TurnLeftWrites(speed_percent) ==
    SetMotorWrites("Left", "Reverse", speed_percent) \o SetMotorWrites("Right", "Forward", speed_percent)
TurnRightWrites(speed_percent) ==
    SetMotorWrites("Left", "Forward", speed_percent) \o SetMotorWrites("Right", "Reverse", speed_percent)

InitPwm ==
    /\ mode = Car
    /\ sensors = NewSensors
    /\ motors = AllOff
    /\ last_direction = 0
    /\ tele = NewTele
    /\ loop_counter = 0
    /\ rx = <<>>
    /\ now = 0
    /\ pc = "poll"
    /\ conn = FALSE
    /\ cmd = NoCmd
    /\ sent = <<>>
    /\ mode0 = Car
    /\ tick = "none"
    /\ calEnds = 0
    /\ panicked = FALSE
    /\ bias = 0
    /\ call = [fn |-> "new", writes |-> <<>>]

\* An operation is entered when the previous one has returned
Enter(fn, writes) ==
    /\ ~panicked
    /\ call.writes = <<>>
    /\ call' = [fn |-> fn, writes |-> writes]
    /\ UNCHANGED <<mode, sensors, motors, last_direction, tele, loop_counter, rx, now,
                   pc, conn, cmd, sent, mode0, tick, calEnds, panicked, bias>>

EnterSetMotor ==
    \E motor \in {"Left", "Right"}, direction \in Directions, speed_percent \in PercentSample :
        Enter("set_motor", SetMotorWrites(motor, direction, speed_percent))

\* speed_to_dir is evaluated for both sides before the first register write
EnterSetBoth ==
    \E left_speed \in SpeedSample, right_speed \in SpeedSample, checks \in BOOLEAN :
        IF SetBoth(motors, left_speed, right_speed, checks).panic
        THEN /\ ~panicked
             /\ call.writes = <<>>
             /\ panicked' = TRUE
             /\ call' = [fn |-> "set_both", writes |-> <<>>]
             /\ UNCHANGED <<mode, sensors, motors, last_direction, tele, loop_counter, rx,
                            now, pc, conn, cmd, sent, mode0, tick, calEnds, bias>>
        ELSE Enter("set_both", SetBothWrites(left_speed, right_speed, checks))

EnterStopAll == Enter("stop_all", StopAllWrites)
EnterForward == \E speed_percent \in PercentSample : Enter("forward", ForwardWrites(speed_percent))
EnterBackward == \E speed_percent \in PercentSample : Enter("backward", BackwardWrites(speed_percent))
EnterTurnLeft == \E speed_percent \in PercentSample : Enter("turn_left", TurnLeftWrites(speed_percent))
EnterTurnRight == \E speed_percent \in PercentSample : Enter("turn_right", TurnRightWrites(speed_percent))

\* pwm.set_duty: the next register write of the running operation
WriteDuty ==
    /\ call.writes # <<>>
    /\ motors' = SetDuty(motors, Head(call.writes)[1], Head(call.writes)[2])
    /\ call' = [call EXCEPT !.writes = Tail(@)]
    /\ UNCHANGED <<mode, sensors, last_direction, tele, loop_counter, rx, now,
                   pc, conn, cmd, sent, mode0, tick, calEnds, panicked, bias>>

NextPwm ==
    \/ EnterSetMotor
    \/ EnterSetBoth
    \/ EnterStopAll
    \/ EnterForward
    \/ EnterBackward
    \/ EnterTurnLeft
    \/ EnterTurnRight
    \/ WriteDuty

SpecPwm == InitPwm /\ [][NextPwm]_vars

\* sensors.rs:146-159, finalize_calibration called once. The calibration is
\* fresh (reset_calibration, no sample yet) or has seen samples: channel 0
\* with one pair of bounds, the other channels with another.
CalMins == {0, 300, 2000}
CalRanges == {0, 1, 1000, 1638, 1639, 2095}
CalPairs == {<<lo, lo + range>> : lo \in CalMins, range \in CalRanges}
Sampled(p, q) ==
    [min_readings |-> [i \in Channels |-> IF i = 0 THEN p[1] ELSE q[1]],
     max_readings |-> [i \in Channels |-> IF i = 0 THEN p[2] ELSE q[2]],
     thresholds   |-> [i \in Channels |-> DEFAULT_THRESHOLD],
     calibrated   |-> FALSE]

InitCalib ==
    /\ sensors \in {NewSensors} \cup {Sampled(p, q) : p \in CalPairs, q \in CalPairs}
    /\ mode = Car
    /\ motors = AllOff
    /\ last_direction = 0
    /\ tele = NewTele
    /\ loop_counter = 0
    /\ rx = <<>>
    /\ now = 0
    /\ pc = "poll"
    /\ conn = FALSE
    /\ cmd = NoCmd
    /\ sent = <<>>
    /\ mode0 = Car
    /\ tick = "none"
    /\ calEnds = 0
    /\ panicked = FALSE
    /\ bias = 0
    /\ call = NoCall

CallFinalizeCalibration(checks) ==
    /\ call = NoCall
    /\ LET f == FinalizeCalibration(sensors, checks)
       IN  sensors' = f.sensors /\ panicked' = f.panic
    /\ call' = [fn |-> "finalize_calibration", args |-> <<>>, ret |-> <<>>]
    /\ UNCHANGED <<mode, motors, last_direction, tele, loop_counter, rx, now,
                   pc, conn, cmd, sent, mode0, tick, calEnds, bias>>

NextCalib == \E checks \in BOOLEAN : CallFinalizeCalibration(checks)

SpecCalib == InitCalib /\ [][NextCalib]_vars

\* sensors.rs:127-144, reset_calibration and update_calibration called in any
\* order on a new or a finalized calibration; call.seen holds the frames read
\* since the last reset_calibration, call.fresh whether there was one
MaxSamples == 3
SampleFrames ==
    {FrameOf({}, 300), FrameOf({6}, 3000),
     [i \in Channels |-> 0], [i \in Channels |-> ADC_MAX],
     [i \in Channels |-> 500 * i + 100], [i \in Channels |-> 3900 - 500 * i]}

InitSample ==
    /\ sensors \in {NewSensors,
                    [min_readings |-> [i \in Channels |-> 300],
                     max_readings |-> [i \in Channels |-> 1900],
                     thresholds   |-> [i \in Channels |-> 940],
                     calibrated   |-> TRUE]}
    /\ mode = Car
    /\ motors = AllOff
    /\ last_direction = 0
    /\ tele = NewTele
    /\ loop_counter = 0
    /\ rx = <<>>
    /\ now = 0
    /\ pc = "poll"
    /\ conn = FALSE
    /\ cmd = NoCmd
    /\ sent = <<>>
    /\ mode0 = Car
    /\ tick = "none"
    /\ calEnds = 0
    /\ panicked = FALSE
    /\ bias = 0
    /\ call = [fn |-> "new", fresh |-> FALSE, seen |-> <<>>]

CallResetCalibration ==
    /\ sensors' = ResetCalibration(sensors)
    /\ call' = [fn |-> "reset_calibration", fresh |-> TRUE, seen |-> <<>>]
    /\ UNCHANGED <<mode, motors, last_direction, tele, loop_counter, rx, now,
                   pc, conn, cmd, sent, mode0, tick, calEnds, panicked, bias>>

CallUpdateCalibration(readings) ==
    /\ Len(call.seen) < MaxSamples
    /\ sensors' = UpdateCalibration(sensors, readings)
    /\ call' = [call EXCEPT !.fn = "update_calibration", !.seen = Append(@, readings)]
    /\ UNCHANGED <<mode, motors, last_direction, tele, loop_counter, rx, now,
                   pc, conn, cmd, sent, mode0, tick, calEnds, panicked, bias>>

NextSample ==
    \/ CallResetCalibration
    \/ \E readings \in SampleFrames : CallUpdateCalibration(readings)

SpecSample == InitSample /\ [][NextSample]_vars

\* sensors.rs:186-198, the normalisation of read_line_position applied to
\* two readings r1 <= r2 of one channel
RawSample == {0, 1, 299, 300, 301, 650, 999, 1000, 1001, 2000, 2999, 3000, 3001, 4094, 4095}
BoundSample == {0, 300, 1000, 3000, 4095}

CallNormalize(r1, r2, min, max) ==
    /\ call = NoCall
    /\ r1 <= r2
    /\ call' = [fn |-> "normalize", args |-> <<r1, r2, min, max>>,
                ret |-> <<Normalize(r1, min, max), Normalize(r2, min, max)>>]
    /\ UNCHANGED Prog

NextNormalize ==
    \E r1 \in RawSample, r2 \in RawSample, min \in BoundSample, max \in BoundSample :
        CallNormalize(r1, r2, min, max)

SpecNormalize == Init /\ [][NextNormalize]_vars

\* sensors.rs:181-213, read_line_position called once on a calibration that
\* is fresh or has the same bounds on every channel, with a frame that is
\* uniform or has at most two channels above 0
Uniform(lo, hi) ==
    [min_readings |-> [i \in Channels |-> lo],
     max_readings |-> [i \in Channels |-> hi],
     thresholds   |-> [i \in Channels |-> lo + ((hi - lo) * 40) \div 100],
     calibrated   |-> TRUE]
LineCalibrations == {NewSensors, Uniform(0, 1000), Uniform(300, 1900)}
LineLevels == {0, 250, 499, 500, 700, 1000, 1100, 4095}
LineFrames ==
    {[i \in Channels |-> v] : v \in LineLevels} \cup
    {[i \in Channels |-> IF i = k THEN v ELSE IF i = j THEN w ELSE 0] :
        k \in Channels, j \in Channels, v \in LineLevels, w \in LineLevels}

InitLine ==
    /\ sensors \in LineCalibrations
    /\ mode = Car
    /\ motors = AllOff
    /\ last_direction = 0
    /\ tele = NewTele
    /\ loop_counter = 0
    /\ rx = <<>>
    /\ now = 0
    /\ pc = "poll"
    /\ conn = FALSE
    /\ cmd = NoCmd
    /\ sent = <<>>
    /\ mode0 = Car
    /\ tick = "none"
    /\ calEnds = 0
    /\ panicked = FALSE
    /\ bias = 0
    /\ call = NoCall

CallReadLinePosition(readings) ==
    /\ call = NoCall
    /\ LET lp == ReadLinePosition(sensors, readings)
       IN  call' = [fn |-> "read_line_position", args |-> <<readings>>,
                    ret |-> <<lp.position, lp.intensity>>]
    /\ UNCHANGED Prog

NextLine == \E readings \in LineFrames : CallReadLinePosition(readings)

SpecLine == InitLine /\ [][NextLine]_vars

\* main.rs:234-305, the line follower running with the link absent, from the
\* iteration after a calibration between 300 (floor) and 1900 (line) was
\* finalised at 10 s
MaxRunTicks == 4
RunStart == 998
Lit2(k, v, j, w) == [i \in Channels |-> IF i = k THEN v ELSE IF i = j THEN w ELSE 300]
RunFrames ==
    {Lit2(k, 1900, k, 1900) : k \in Channels} \cup
    {Lit2(3, 300, 3, 300), Lit2(3, 1000, 3, 1000),
     Lit2(3, 1900, 4, 1900), Lit2(3, 1100, 4, 1100),
     Lit2(3, 1900, 4, 1100), Lit2(4, 1900, 3, 1100),
     Lit2(2, 1900, 3, 1100), Lit2(4, 1900, 5, 1100),
     Lit2(4, 1900, 5, 480), Lit2(3, 1900, 2, 480),
     [i \in Channels |-> 1900]}

InitRun ==
    /\ mode = LineFollowerRunning
    /\ sensors = Uniform(300, 1900)
    /\ motors = AllOff
    /\ last_direction = 0
    /\ tele = NewTele
    /\ loop_counter = RunStart
    /\ rx = <<>>
    /\ now = CALIBRATION_SECS
    /\ pc = "poll"
    /\ conn = FALSE
    /\ cmd = NoCmd
    /\ sent = <<>>
    /\ mode0 = LineFollowerRunning
    /\ tick = "none"
    /\ calEnds = 1
    /\ panicked = FALSE
    /\ bias = 0
    /\ call = NoCall

NextRun ==
    \/ PollWith(FALSE, <<0, 0, 0>>, AnyFrame, FALSE)
    \/ \E readings \in RunFrames, checks \in BOOLEAN :
          LogicWith(readings, checks, RunStart + MaxRunTicks)
    \/ Sleep(0)

SpecRun == InitRun /\ [][NextRun]_vars

\* The control loop from its 16th iteration on, the robot still in Car with
\* nothing received: the 20th iteration falls within MaxLoop iterations
TeleStart == 15

InitTele ==
    /\ mode = Car
    /\ sensors = NewSensors
    /\ motors = AllOff
    /\ last_direction = 0
    /\ tele = NewTele
    /\ loop_counter = TeleStart
    /\ rx = <<>>
    /\ now = 0
    /\ pc = "poll"
    /\ conn = FALSE
    /\ cmd = NoCmd
    /\ sent = <<>>
    /\ mode0 = Car
    /\ tick = "none"
    /\ calEnds = 0
    /\ panicked = FALSE
    /\ bias = 0
    /\ call = NoCall

LogicTele ==
    \E readings \in LogicFrames, checks \in LogicChecks :
        LogicWith(readings, checks, TeleStart + MaxLoop)

NextTele ==
    \/ \E p \in Packets : Receive(p)
    \/ Poll
    \/ LogicTele
    \/ \E d \in {0, TimeStep} : Sleep(d)

SpecTele == InitTele /\ [][NextTele]_vars

\* The control loop in Car or LineFollowerIdle when the peer has sent one
\* Motor or SetMode command and sends nothing more; call.packet keeps its bytes
LateBytes == {2, 6, 7, 50}
LatePackets ==
    {<<CMD_SET_MODE, b>> : b \in LateBytes}
        \cup {<<CMD_MOTOR, a, b>> : a \in LateBytes, b \in LateBytes}

InitLate ==
    /\ mode \in {Car, LineFollowerIdle}
    /\ sensors = NewSensors
    /\ motors = AllOff
    /\ last_direction = 0
    /\ tele = NewTele
    /\ loop_counter = 0
    /\ rx \in LatePackets
    /\ now = 0
    /\ pc = "poll"
    /\ conn = FALSE
    /\ cmd = NoCmd
    /\ sent = <<>>
    /\ mode0 = mode
    /\ tick = "none"
    /\ calEnds = 0
    /\ panicked = FALSE
    /\ bias = 0
    /\ call = [fn |-> "sent", packet |-> rx]

NextLate ==
    \/ Poll
    \/ Logic
    \/ \E d \in {0, TimeStep} : Sleep(d)

SpecLate == InitLate /\ [][NextLate]_vars

\* The control loop with a peer that stops, restarts and queries the line
\* follower, from start-up and from LineFollowerRunning with a completed
\* calibration (300..1900, thresholds 940). The line reads 1500, between the
\* default threshold and the calibrated ones.
RecalPackets == {<<CMD_SET_MODE, 1>>, <<CMD_START>>, <<CMD_STOP>>, <<CMD_GET_SENSORS>>}
RecalFrames == {FrameOf({}, 300), FrameOf({6}, 1500)}

InitRecal ==
    /\ \/ mode = Car /\ sensors = NewSensors /\ now = 0 /\ calEnds = 0
       \/ mode = LineFollowerRunning /\ sensors = Uniform(300, 1900)
          /\ now = CALIBRATION_SECS /\ calEnds = 1
    /\ motors = AllOff
    /\ last_direction = 0
    /\ tele = NewTele
    /\ loop_counter = RunStart
    /\ rx = <<>>
    /\ pc = "poll"
    /\ conn = FALSE
    /\ cmd = NoCmd
    /\ sent = <<>>
    /\ mode0 = mode
    /\ tick = "none"
    /\ panicked = FALSE
    /\ bias = 0
    /\ call = NoCall

PollRecal ==
    \E c \in BOOLEAN :
        \E outs \in PollOutcomes(c, rx),
           readings \in (IF c /\ rx # <<>> /\ Head(rx) = CMD_GET_SENSORS
                         THEN RecalFrames ELSE {AnyFrame}) :
            PollWith(c, outs, readings, FALSE)

LogicRecal ==
    \E readings \in (IF mode.tag \in {"LineFollowerCalibrating", "LineFollowerRunning"}
                     THEN RecalFrames ELSE {AnyFrame}),
       checks \in LogicChecks :
        LogicWith(readings, checks, RunStart + MaxLoop)

NextRecal ==
    \/ \E p \in RecalPackets : Receive(p)
    \/ PollRecal
    \/ LogicRecal
    \/ \E d \in {0, TimeStep} : Sleep(d)

SpecRecal == InitRecal /\ [][NextRecal]_vars

\* The control loop with a peer that sends SetMode with every mode byte, W
\* (forward in Car) and Start, from start-up, from LineFollowerIdle and from
\* LineFollowerRunning
ModePackets == {<<CMD_SET_MODE, m>> : m \in 0 .. 255} \cup {<<119>>, <<CMD_START>>}

ModeTicks == 2

InitModes ==
    /\ \/ mode \in {Car, LineFollowerIdle} /\ sensors = NewSensors /\ now = 0 /\ calEnds = 0
       \/ mode = LineFollowerRunning /\ sensors = Uniform(300, 1900)
          /\ now = CALIBRATION_SECS /\ calEnds = 1
    /\ motors = AllOff
    /\ last_direction = 0
    /\ tele = NewTele
    /\ loop_counter = RunStart
    /\ rx = <<>>
    /\ pc = "poll"
    /\ conn = FALSE
    /\ cmd = NoCmd
    /\ sent = <<>>
    /\ mode0 = mode
    /\ tick = "none"
    /\ panicked = FALSE
    /\ bias = 0
    /\ call = NoCall

LogicModes ==
    \E readings \in (IF mode.tag \in {"LineFollowerCalibrating", "LineFollowerRunning"}
                     THEN RecalFrames ELSE {AnyFrame}),
       checks \in LogicChecks :
        LogicWith(readings, checks, RunStart + ModeTicks)

NextModes ==
    \/ \E p \in ModePackets : Receive(p)
    \/ PollRecal
    \/ LogicModes
    \/ \E d \in {0, TimeStep} : Sleep(d)

SpecModes == InitModes /\ [][NextModes]_vars

----------------------------------------------------------------------------
(* The claims *)

PollStep == pc = "poll" /\ pc' = "logic"
LogicStep == pc = "logic" /\ pc' = "sleep"

RECURSIVE Count(_, _)
Count(msgs, m) ==
    IF msgs = <<>> THEN 0
    ELSE (IF Head(msgs) = m THEN 1 ELSE 0) + Count(Tail(msgs), m)

Stopped(pwm) == \A ch \in 1 .. 4 : pwm[ch] = 0

\* The bytes a command takes on the wire, by its tag
WireLen(t) == IF t = 1 THEN 3 ELSE IF t = 6 THEN 2 ELSE 1

Signed8(b) == IF b < 128 THEN b ELSE b - 256

\* C1: a processed Start in LineFollowerIdle resets the calibration (min 4095,
\* max 0, flag cleared), sends exactly one CalibrationStart (0x15) and sets the
\* mode to LineFollowerCalibrating(now); in every other mode it changes
\* neither the mode nor the calibration and sends no CalibrationStart.
C1_Start ==
    [][(PollStep /\ cmd' = Start) =>
          IF mode = LineFollowerIdle
          THEN /\ \A i \in 0 .. 7 : /\ sensors'.min_readings[i] = 4095
                                    /\ sensors'.max_readings[i] = 0
               /\ sensors'.calibrated = FALSE
               /\ Count(sent', <<21>>) = 1
               /\ mode' = [tag |-> "LineFollowerCalibrating", start |-> now]
          ELSE /\ mode' = mode
               /\ sensors' = sensors
               /\ Count(sent', <<21>>) = 0]_vars

\* Start has just been processed in LineFollowerIdle after an earlier
\* calibration was finalised.
C1_Witness ==
    /\ pc = "logic" /\ cmd = Start /\ mode0 = LineFollowerIdle
    /\ mode.tag = "LineFollowerCalibrating"
    /\ sensors.thresholds # [i \in 0 .. 7 |-> 2000]

\* C2: while calibrating, a tick with less than 10 s elapsed calls
\* update_calibration and keeps the mode; a tick with 10 s or more elapsed
\* finalises, sends CalibrationEnd (0x16) exactly once and sets the mode to
\* LineFollowerRunning; CalibrationEnd is sent at most once per window.
C2_Calibrating ==
    [][(LogicStep /\ mode.tag = "LineFollowerCalibrating") =>
          IF now - mode.start < 10
          THEN /\ tick' = "update"
               /\ mode' = mode
               /\ Count(sent', <<22>>) = 0
               /\ \E f \in Frames : sensors' = UpdateCalibration(sensors, f)
          ELSE /\ tick' = "finalize"
               /\ sensors'.calibrated
               /\ Count(sent', <<22>>) = 1
               /\ calEnds' = 1
               /\ mode' = LineFollowerRunning]_vars

\* The tick 10 s after the start has ended in the overflow panic of
\* finalize_calibration: no CalibrationEnd, the mode still LineFollowerCalibrating
C2_Witness ==
    /\ pc = "sleep" /\ tick = "finalize" /\ panicked
    /\ mode.tag = "LineFollowerCalibrating" /\ now - mode.start >= 10
    /\ Count(sent, <<22>>) = 0

\* C3: a processed Stop sets the four duties to 0 in every mode, sends
\* nothing, turns LineFollowerCalibrating and LineFollowerRunning into
\* LineFollowerIdle and leaves Car and LineFollowerIdle; no CalibrationEnd
\* is sent in the iteration that processed it.
C3_Stop ==
    [][/\ (PollStep /\ cmd' = Stop) =>
             /\ Stopped(motors')
             /\ sent' = sent
             /\ calEnds' = calEnds
             /\ mode' = IF mode.tag \in {"LineFollowerCalibrating", "LineFollowerRunning"}
                        THEN [tag |-> "LineFollowerIdle"] ELSE mode
       /\ (cmd' = Stop) => Count(sent', <<22>>) = 0]_vars

\* Stop has aborted a run: nothing was sent, the logic of the iteration saw
\* LineFollowerIdle.
C3_Witness ==
    /\ pc = "sleep" /\ cmd = Stop /\ mode0 = LineFollowerRunning
    /\ mode = LineFollowerIdle /\ tick = "idle" /\ sent = <<>> /\ Stopped(motors)

\* C4: from every mode a processed SetMode(0) sets the mode to Car, a
\* processed SetMode(1) sets it to LineFollowerIdle, and both set the four
\* duties to 0.
C4_SetMode ==
    [][(PollStep /\ cmd'.tag = "SetMode" /\ cmd'.m \in {0, 1}) =>
          /\ mode' = IF cmd'.m = 0 THEN [tag |-> "Car"] ELSE [tag |-> "LineFollowerIdle"]
          /\ Stopped(motors')]_vars

\* SetMode(1) has ended a calibration window
C4_Witness ==
    /\ pc = "logic" /\ cmd = SetMode(1) /\ mode0.tag = "LineFollowerCalibrating"
    /\ mode = LineFollowerIdle /\ Stopped(motors)

\* The duties of the four named manoeuvres at 70 %
KeyDuty == (MaxDuty * 70) \div 100
KeyForward == [ch \in 1 .. 4 |-> IF ch \in {1, 3} THEN KeyDuty ELSE 0]
KeyBackward == [ch \in 1 .. 4 |-> IF ch \in {2, 4} THEN KeyDuty ELSE 0]
KeyLeft == [ch \in 1 .. 4 |-> IF ch \in {2, 3} THEN KeyDuty ELSE 0]
KeyRight == [ch \in 1 .. 4 |-> IF ch \in {1, 4} THEN KeyDuty ELSE 0]

\* C5: a processed Unknown(byte) is a keyboard shortcut in Car only: W/w
\* forward, S/s backward, A/a left, D/d right at speed 70, Q/q/space
\* stop_all; in the other three modes it changes neither the mode nor the
\* duties.
C5_Unknown ==
    [][(PollStep /\ cmd'.tag = "Unknown") =>
          /\ mode' = mode
          /\ IF mode = [tag |-> "Car"]
             THEN /\ cmd'.byte \in {87, 119} => motors' = KeyForward
                  /\ cmd'.byte \in {83, 115} => motors' = KeyBackward
                  /\ cmd'.byte \in {65, 97} => motors' = KeyLeft
                  /\ cmd'.byte \in {68, 100} => motors' = KeyRight
                  /\ cmd'.byte \in {81, 113, 32} => Stopped(motors')
             ELSE motors' = motors]_vars

\* An upper-case A has turned the car left
C5_Witness ==
    /\ pc = "logic" /\ cmd = Unknown(65) /\ mode = Car /\ motors = KeyLeft

\* C6: in every mode a processed Motor{left,right} sets the duties to what
\* set_both(left,right) gives and changes neither the mode nor the
\* calibration.
C6_Motor ==
    [][(PollStep /\ cmd'.tag = "Motor") =>
          /\ mode' = mode
          /\ sensors' = sensors
          /\ \E checks \in BOOLEAN :
                LET r == SetBoth(motors, cmd'.left, cmd'.right, checks)
                IN  motors' = r.pwm /\ panicked' = r.panic]_vars

\* Motor{50,-50} has been applied while the line follower was running
C6_Witness ==
    /\ pc = "logic" /\ cmd = Motor(50, -50) /\ mode = LineFollowerRunning
    /\ motors = [ch \in 1 .. 4 |-> IF ch \in {1, 4} THEN MaxDuty \div 2 ELSE 0]

\* C7: the per-mode logic of an iteration is that of the mode the command
\* left: after Stop or SetMode in LineFollowerRunning the iteration does no
\* line following and ends with the four duties at 0; after Start in
\* LineFollowerIdle the same iteration runs update_calibration.
C7_LogicAfterCommand ==
    [][LogicStep =>
          /\ tick' \in (CASE mode.tag = "Car" -> {"car"}
                         [] mode.tag = "LineFollowerIdle" -> {"idle"}
                         [] mode.tag = "LineFollowerCalibrating" -> {"update", "finalize"}
                         [] mode.tag = "LineFollowerRunning" -> {"lost", "found"})
          /\ (mode0 = [tag |-> "LineFollowerRunning"] /\ cmd.tag \in {"Stop", "SetMode"}) =>
                (tick' \notin {"lost", "found"} /\ Stopped(motors'))
          /\ (mode0 = [tag |-> "LineFollowerIdle"] /\ cmd = Start) =>
                (tick' = "update" /\ \E f \in Frames : sensors' = UpdateCalibration(sensors, f))]_vars

\* Start was processed in LineFollowerIdle and the same iteration has sampled
\* the sensors into the calibration
C7_Witness ==
    /\ pc = "sleep" /\ cmd = Start /\ mode0 = LineFollowerIdle /\ tick = "update"
    /\ sensors.min_readings[0] = 300

\* C8: in an iteration where is_connected is false no byte is read and no
\* command is processed: the poll changes neither the unread bytes, nor the
\* mode, nor the calibration, nor the duties, and sends nothing.
C8_NotConnected ==
    [][(PollStep /\ ~conn') =>
          /\ rx' = rx
          /\ cmd' = NoCmd
          /\ mode' = mode
          /\ sensors' = sensors
          /\ motors' = motors
          /\ sent' = sent]_vars

\* A Stop is pending while the line follower runs, and the link is absent
C8_Witness ==
    /\ pc = "logic" /\ ~conn /\ rx = <<2>> /\ mode = LineFollowerRunning
    /\ ~Stopped(motors)

\* The decoding C9 states, for a tag byte with its payload behind it
Decoded(q) ==
    CASE q[1] = 1 -> [tag |-> "Motor", left |-> Signed8(q[2]), right |-> Signed8(q[3])]
      [] q[1] = 2 -> [tag |-> "Stop"]
      [] q[1] = 3 -> [tag |-> "GetSensors"]
      [] q[1] = 4 -> [tag |-> "Ping"]
      [] q[1] = 5 -> [tag |-> "GetRawSensors"]
      [] q[1] = 6 -> [tag |-> "SetMode", m |-> q[2]]
      [] q[1] = 7 -> [tag |-> "Start"]
      [] OTHER -> [tag |-> "Unknown", byte |-> q[1]]

\* Every read try_read_command does for the command at the head of q completes
\* in time
InTime(q, timeout_ms, outs) ==
    /\ outs[1] # ReadError /\ outs[1] < timeout_ms
    /\ \A j \in 2 .. WireLen(q[1]) : outs[j] # ReadError /\ outs[j] < 50

\* C9: for every tag byte whose payload arrives in time try_read_command
\* gives Motor{l as i8, r as i8} for 0x01, Stop for 0x02, GetSensors for 0x03,
\* Ping for 0x04, GetRawSensors for 0x05, SetMode(m) for 0x06, Start for 0x07
\* and Unknown(t) for every other byte t, and leaves the bytes behind the
\* command unread.
C9_Decode ==
    /\ [](\A o1 \in ReadOutcomes, o2 \in ReadOutcomes, o3 \in ReadOutcomes :
             (pc = "poll" /\ Len(rx) = 3 /\ InTime(rx, TimeoutMs(mode), <<o1, o2, o3>>)) =>
                 TryReadCommand(rx, TimeoutMs(mode), <<o1, o2, o3>>) =
                     [cmd |-> Decoded(rx), rest |-> SubSeq(rx, WireLen(rx[1]) + 1, Len(rx))])
    /\ [][(PollStep /\ Len(rx) = 3 /\ conn' /\ Len(rx') = Len(rx) - WireLen(rx[1])) =>
             cmd' = Decoded(rx)]_vars

\* 0x01 0x9C 0x7F has been decoded as Motor{-100, 127}
C9_Witness ==
    pc = "logic" /\ conn /\ cmd = [tag |-> "Motor", left |-> -100, right |-> 127] /\ rx = <<>>

\* A payload read of the command at the head of q fails or is 50 ms late
PayloadLate(q, outs) ==
    \E j \in 2 .. WireLen(q[1]) : outs[j] = ReadError \/ outs[j] >= 50

\* C10: when a payload read of Motor or SetMode fails or does not complete
\* within 50 ms, whatever the tag timeout, try_read_command returns None, no
\* Motor or SetMode with missing fields is surfaced, and the poll changes
\* neither the mode nor the duties.
C10_Dropped ==
    /\ [](\A o1 \in ReadOutcomes, o2 \in ReadOutcomes, o3 \in ReadOutcomes :
             (pc = "poll" /\ rx # <<>> /\ rx[1] \in {1, 6} /\ PayloadLate(rx, <<o1, o2, o3>>)) =>
                 TryReadCommand(rx, TimeoutMs(mode), <<o1, o2, o3>>).cmd = NoCmd)
    /\ [][(PollStep /\ rx # <<>> /\ rx[1] \in {1, 6}) =>
             /\ (Len(rx) - Len(rx') < WireLen(rx[1])) =>
                   (cmd' = NoCmd /\ mode' = mode /\ motors' = motors /\ sent' = sent)
             /\ cmd'.tag = "Motor" => (cmd'.left \in -128 .. 127 /\ cmd'.right \in -128 .. 127)
             /\ cmd'.tag = "SetMode" => cmd'.m \in 0 .. 255]_vars

\* In Car, where the tag timeout is 100 ms, the tag of Motor{50,-50} was read
\* and the command dropped, its payload left unread
C10_Witness ==
    /\ pc = "logic" /\ conn /\ cmd = NoCmd /\ mode = Car /\ rx = <<50, 206>>

IsByte(b) == b \in 0 .. 255
Signed16(w) == IF w < 32768 THEN w ELSE w - 65536

\* C11: RawSensors is 0x13 and, per reading in index order, its low then its
\* high byte (17 bytes); DebugAnalog is 0x17, position and intensity high byte
\* first, steering as its two's-complement byte, left and right speed
\* (8 bytes); Sensors is 0x10 and the mask; Pong, Connected, CalibrationStart
\* and CalibrationEnd are the single bytes 0x11, 0x12, 0x15, 0x16.
C11_Encoding ==
    /\ call.fn = "send_raw_sensors" =>
          /\ Len(call.ret) = 17 /\ call.ret[1] = 19
          /\ \A i \in 0 .. 7 :
                /\ IsByte(call.ret[2 * i + 2]) /\ IsByte(call.ret[2 * i + 3])
                /\ call.ret[2 * i + 2] + 256 * call.ret[2 * i + 3] = call.args[1][i]
    /\ call.fn = "send_analog_debug" =>
          /\ Len(call.ret) = 8 /\ call.ret[1] = 23
          /\ \A k \in 2 .. 8 : IsByte(call.ret[k])
          /\ Signed16(256 * call.ret[2] + call.ret[3]) = call.args[1]
          /\ 256 * call.ret[4] + call.ret[5] = call.args[2]
          /\ Signed8(call.ret[6]) = call.args[3]
          /\ call.ret[7] = call.args[4]
          /\ call.ret[8] = call.args[5]
    /\ call.fn = "send_sensors" => call.ret = <<16, call.args[1]>>
    /\ call.fn = "send_pong" => call.ret = <<17>>
    /\ call.fn = "send_connected" => call.ret = <<18>>
    /\ call.fn = "send_calibration_start" => call.ret = <<21>>
    /\ call.fn = "send_calibration_end" => call.ret = <<22>>

\* Position -167, intensity 500 and steering -1 have been encoded
C11_Witness ==
    /\ call.fn = "send_analog_debug"
    /\ call.args = <<-167, 500, -1, 75, 25>>
    /\ call.ret = <<23, 255, 89, 1, 244, 255, 75, 25>>

\* 10 % of the full duty
KeepAlive == (MaxDuty * 10) \div 100

\* C12: after set_both, a side whose argument is 0 has its forward channel at
\* 10 % of the full duty and its reverse channel at 0 (so set_both(0,0) gives
\* that on both sides, not four zeros); after stop_all the four duties are 0.
C12_StopPolicy ==
    /\ call.fn = "set_both" =>
          /\ call.args[1] = 0 => (motors[1] = KeepAlive /\ motors[2] = 0)
          /\ call.args[2] = 0 => (motors[3] = KeepAlive /\ motors[4] = 0)
    /\ call.fn = "stop_all" => Stopped(motors)

\* set_both(0, -128) has panicked on a stopped controller: the left side is
\* not in the Stop policy
C12_Witness ==
    /\ call.fn = "set_both" /\ call.args = <<0, -128>> /\ panicked /\ Stopped(motors)

\* The duty of magnitude |v| clamped to 100
DutyOf(v) == (MaxDuty * (IF v < -100 \/ v > 100 THEN 100 ELSE IF v < 0 THEN -v ELSE v)) \div 100

\* C13: for every v in -128..127 given to set_both, the side runs forward for
\* v > 0 and in reverse for v < 0, at duty max_duty * min(|v|, 100) / 100; a
\* magnitude above 100, -128 included, gives the duties of magnitude 100.
C13_Clamp ==
    call.fn = "set_both" =>
        \A side \in 1 .. 2 :
            LET v == call.args[side]
                fwd == motors[2 * side - 1]
                rev == motors[2 * side]
            IN  /\ v > 0 => (fwd = DutyOf(v) /\ rev = 0)
                /\ v < 0 => (rev = DutyOf(v) /\ fwd = 0)

\* set_both(-128, 50) has panicked: neither side is driven
C13_Witness ==
    /\ call.fn = "set_both" /\ call.args = <<-128, 50>> /\ panicked /\ Stopped(motors)

\* C14: after finalize_calibration, a channel with 0 <= min <= max <= 4095 has
\* threshold = min + (max - min) * 40 / 100 (integer division), which lies in
\* [min, max]; a channel with max < min has threshold = min; the calibrated
\* flag is set.
C14_Threshold ==
    call.fn = "finalize_calibration" =>
        /\ sensors.calibrated
        /\ \A i \in 0 .. 7 :
              LET lo == sensors.min_readings[i]
                  hi == sensors.max_readings[i]
                  th == sensors.thresholds[i]
              IN  /\ (0 <= lo /\ lo <= hi /\ hi <= 4095) =>
                        (th = lo + ((hi - lo) * 40) \div 100 /\ lo <= th /\ th <= hi)
                  /\ hi < lo => th = lo

\* finalize_calibration has returned, in a build whose arithmetic wraps, with
\* threshold 482 for a channel with min 300 and max 2395 (40 % is 1138)
C14_Witness ==
    /\ call.fn = "finalize_calibration" /\ ~panicked /\ sensors.calibrated
    /\ sensors.min_readings[0] = 300 /\ sensors.max_readings[0] = 2395
    /\ sensors.thresholds[0] = 482

\* C15: with channel bounds min = max the normalised value is 0 for every
\* reading; with min < max it is 0 for r <= min, 1000 for r >= max, within
\* 0..1000, and non-decreasing in r.
C15_Normalize ==
    call.fn = "normalize" =>
        LET r1 == call.args[1]
            r2 == call.args[2]
            lo == call.args[3]
            hi == call.args[4]
            n1 == call.ret[1]
            n2 == call.ret[2]
        IN  /\ lo = hi => (n1 = 0 /\ n2 = 0)
            /\ lo < hi =>
                  /\ r1 <= lo => n1 = 0
                  /\ r2 <= lo => n2 = 0
                  /\ r1 >= hi => n1 = 1000
                  /\ r2 >= hi => n2 = 1000
                  /\ n1 \in 0 .. 1000 /\ n2 \in 0 .. 1000
                  /\ n1 <= n2

\* With min = max = 300 the reading 300 normalises to 0 and the reading 301
\* to 1000
C15_Witness ==
    /\ call.fn = "normalize" /\ call.args = <<300, 301, 300, 300>>
    /\ call.ret = <<0, 1000>>

\* The normalised values of a frame under the calibration in force
Normalized(readings) ==
    [i \in 0 .. 7 |-> Normalize(readings[i], sensors.min_readings[i], sensors.max_readings[i])]

\* C16: read_line_position returns (0,0) when the normalised values sum to
\* less than 500; otherwise the intensity is that sum (so it is 0 or at least
\* 500) and the position is (sum of normalised[i]*i*1000) / intensity - 3500,
\* within -3500..3500. With min 0 and max 1000 everywhere and only channel 3
\* at 1000 the result is (-500, 1000).
C16_LinePosition ==
    call.fn = "read_line_position" =>
        LET n == Normalized(call.args[1])
            sum == n[0] + n[1] + n[2] + n[3] + n[4] + n[5] + n[6] + n[7]
            weighted == 1000 * (n[1] + 2 * n[2] + 3 * n[3] + 4 * n[4] + 5 * n[5]
                                + 6 * n[6] + 7 * n[7])
            position == call.ret[1]
            intensity == call.ret[2]
        IN  /\ sum < 500 => (position = 0 /\ intensity = 0)
            /\ sum >= 500 => /\ intensity = sum
                             /\ position = weighted \div sum - 3500
            /\ intensity = 0 \/ intensity >= 500
            /\ position \in -3500 .. 3500
            /\ (/\ \A i \in 0 .. 7 : sensors.min_readings[i] = 0 /\ sensors.max_readings[i] = 1000
                /\ call.args[1] = [i \in 0 .. 7 |-> IF i = 3 THEN 1000 ELSE 0])
               => (position = -500 /\ intensity = 1000)

\* Channel 3 at full and channel 4 at half intensity: the line is 167 left of
\* the centre
C16_Witness ==
    /\ call.fn = "read_line_position"
    /\ sensors = Uniform(0, 1000)
    /\ call.args[1] = [i \in 0 .. 7 |-> IF i = 3 THEN 1000 ELSE IF i = 4 THEN 500 ELSE 0]
    /\ call.ret = <<-167, 1500>>

\* C17: no reachable state of the control loop is past a fatal path: no
\* arithmetic operation has left the range of its integer type (the i8 negation
\* of speed_to_dir, the u16 range * 40 and min + offset of
\* finalize_calibration, the 32-bit sums of read_line_position) and no
\* division by zero has occurred.
C17_NoFatal == ~panicked

\* The command Motor{-128, 0} has aborted the program in speed_to_dir
C17_Witness ==
    /\ panicked /\ pc = "logic" /\ cmd = [tag |-> "Motor", left |-> -128, right |-> 0]

\* C18: in every mode the poll of GetSensors, GetRawSensors or Ping writes
\* exactly one message, Sensors (0x10 and the mask of the frame read),
\* RawSensors (0x13, 17 bytes) or Pong (0x11), and changes neither the mode,
\* nor the calibration, nor the duties.
C18_Queries ==
    [][(PollStep /\ cmd'.tag \in {"GetSensors", "GetRawSensors", "Ping"}) =>
          /\ mode' = mode /\ sensors' = sensors /\ motors' = motors
          /\ Len(sent') = 1
          /\ cmd'.tag = "GetSensors" =>
                \E f \in Frames : sent'[1] = <<16, ReadBinary(sensors, f)>>
          /\ cmd'.tag = "GetRawSensors" =>
                (Len(sent'[1]) = 17 /\ sent'[1][1] = 19)
          /\ cmd'.tag = "Ping" => sent'[1] = <<17>>]_vars

\* GetSensors has been answered while the line follower runs, with the line
\* under sensor 7
C18_Witness ==
    /\ pc = "logic" /\ cmd = GetSensors /\ mode = LineFollowerRunning
    /\ sent = << <<16, 64>> >>

\* The duties of one side after set_both with argument v in 0..100
SideDuties(v) == IF v > 0 THEN <<(MaxDuty * v) \div 100, 0>> ELSE <<KeepAlive, 0>>
Clamp75(x) == IF x < 0 THEN 0 ELSE IF x > 75 THEN 75 ELSE x

\* C19: in a running tick that finds the line (intensity not 0), steering is
\* position / 100 truncated toward zero, the base speed is 65 for
\* |position| < 500, 55 for 500 <= |position| < 1500 and 50 otherwise, the
\* motors get set_both(clamp(base + steering, 0, 75), clamp(base - steering,
\* 0, 75)), and the remembered direction becomes 1 for steering > 5, -1 for
\* steering < -5 and 0 otherwise.
C19_Steering ==
    [][(LogicStep /\ mode = [tag |-> "LineFollowerRunning"]) =>
          /\ tick' = "found" <=> tele'.last_intensity # 0
          /\ tick' = "found" =>
                LET position == tele'.last_weighted_pos
                    mag == IF position < 0 THEN -position ELSE position
                    steering == IF position < 0 THEN -(mag \div 100) ELSE mag \div 100
                    base == IF mag < 500 THEN 65 ELSE IF mag < 1500 THEN 55 ELSE 50
                IN  /\ tele'.last_steering = steering
                    /\ motors' = SideDuties(Clamp75(base + steering))
                                 \o SideDuties(Clamp75(base - steering))
                    /\ last_direction' = IF steering > 5 THEN 1
                                         ELSE IF steering < -5 THEN -1 ELSE 0]_vars

\* The line is 1167 left of the centre: steering -11, base 55, set_both(44, 66)
C19_Witness ==
    /\ pc = "sleep" /\ tick = "found" /\ tele.last_weighted_pos = -1167
    /\ tele.last_steering = -11 /\ last_direction = -1
    /\ motors = <<(MaxDuty * 44) \div 100, 0, (MaxDuty * 66) \div 100, 0>>

\* The duties of turn_left(55), turn_right(55) and forward(50)
SearchLeft == <<0, (MaxDuty * 55) \div 100, (MaxDuty * 55) \div 100, 0>>
SearchRight == <<(MaxDuty * 55) \div 100, 0, 0, (MaxDuty * 55) \div 100>>
Crawl == <<(MaxDuty * 50) \div 100, 0, (MaxDuty * 50) \div 100, 0>>

\* C20: in a running tick that has lost the line, the robot steers by the last
\* non-zero direction recorded while the line was found: turn_left(55) if it
\* was left, turn_right(55) if it was right, forward(50) only if none was
\* recorded; so after steering > 5, then steering in -5..5, then a lost line,
\* it searches to the right.
C20_LastNonZero ==
    [][(LogicStep /\ mode = [tag |-> "LineFollowerRunning"] /\ tick' = "lost") =>
          motors' = IF bias < 0 THEN SearchLeft
                    ELSE IF bias > 0 THEN SearchRight ELSE Crawl]_vars

\* C20, amended: in a running tick that has lost the line, the robot steers by
\* the steering of the most recent tick that found the line: turn_left(55) if
\* it was below -5, turn_right(55) if it was above 5, forward(50) if it was in
\* -5..5 or no tick has found the line yet; so after steering > 5, then
\* steering in -5..5, then a lost line, it crawls forward.
C20_LastFound ==
    [][(LogicStep /\ mode = [tag |-> "LineFollowerRunning"] /\ tick' = "lost") =>
          /\ tele'.last_steering = tele.last_steering
          /\ last_direction' = last_direction
          /\ motors' = IF tele.last_steering < -5 THEN SearchLeft
                       ELSE IF tele.last_steering > 5 THEN SearchRight ELSE Crawl]_vars

\* The line was followed to the right, then straight, then lost: the robot
\* crawls forward
C20_Witness ==
    /\ pc = "sleep" /\ tick = "lost" /\ bias = 1 /\ last_direction = 0
    /\ tele.last_steering \in -5 .. 5 /\ motors = Crawl

\* The analog-debug messages (first byte 0x17) among msgs
RECURSIVE DebugMsgs(_)
DebugMsgs(msgs) ==
    IF msgs = <<>> THEN <<>>
    ELSE (IF Head(msgs)[1] = 23 THEN <<Head(msgs)>> ELSE <<>>) \o DebugMsgs(Tail(msgs))

\* C21: an analog-debug message is written exactly in the logic step of an
\* iteration that ends in LineFollowerRunning with the incremented loop
\* counter a multiple of 20, never in Car, LineFollowerIdle or
\* LineFollowerCalibrating, once, and it carries the position, intensity,
\* steering and speeds the Running logic stored last.
C21_Telemetry ==
    [][/\ ~LogicStep => DebugMsgs(sent') \in {<<>>, DebugMsgs(sent)}
       /\ LogicStep =>
             LET d == DebugMsgs(sent')
             IN  /\ DebugMsgs(sent) = <<>>
                 /\ d # <<>> <=> (mode' = [tag |-> "LineFollowerRunning"]
                                  /\ loop_counter' = loop_counter + 1
                                  /\ loop_counter' % 20 = 0)
                 /\ d # <<>> =>
                       /\ Len(d) = 1 /\ Len(d[1]) = 8
                       /\ Signed16(256 * d[1][2] + d[1][3]) = tele'.last_weighted_pos
                       /\ 256 * d[1][4] + d[1][5] = tele'.last_intensity
                       /\ Signed8(d[1][6]) = tele'.last_steering
                       /\ d[1][7] = tele'.last_left_speed
                       /\ d[1][8] = tele'.last_right_speed]_vars

\* The 20th iteration has followed the line under sensor 7: position 2500,
\* intensity 1000, steering 25, speeds 75 and 25
C21_Witness ==
    /\ pc = "sleep" /\ loop_counter = 20 /\ mode = LineFollowerRunning /\ tick = "found"
    /\ sent = << <<23, 9, 196, 3, 232, 25, 75, 25>> >>

\* C22: after reset_calibration and one or more update_calibration calls,
\* every channel has min <= max, min is the smallest and max the largest
\* reading of that channel since the reset; no update_calibration call, before
\* or after a reset, raises a minimum or lowers a maximum.
C22_MinMax ==
    /\ [](call.fresh /\ call.seen # <<>> =>
            \A i \in Channels :
               LET read == {call.seen[k][i] : k \in 1 .. Len(call.seen)}
               IN  /\ sensors.min_readings[i] <= sensors.max_readings[i]
                   /\ sensors.min_readings[i] \in read
                   /\ sensors.max_readings[i] \in read
                   /\ \A v \in read : sensors.min_readings[i] <= v /\ v <= sensors.max_readings[i])
    /\ [][call'.fn = "update_calibration" =>
            \A i \in Channels :
               /\ sensors'.min_readings[i] <= sensors.min_readings[i]
               /\ sensors'.max_readings[i] >= sensors.max_readings[i]]_vars

\* Three frames since the reset: channel 7 has seen 300, 3000 and 900
C22_Witness ==
    /\ call.fresh /\ call.fn = "update_calibration" /\ Len(call.seen) = 3
    /\ call.seen[2] = FrameOf({6}, 3000)
    /\ sensors.min_readings[6] = 300 /\ sensors.max_readings[6] = 3000
    /\ sensors.min_readings[0] = 300 /\ sensors.max_readings[0] = 3900

\* C23: after any sequence of MotorController operations, and between the
\* register writes of a running one, each side has at most one of its
\* forward and reverse channels at a non-zero duty, and every duty lies in
\* [0, max_duty].
C23_Exclusive ==
    /\ \A motor \in {"Left", "Right"} : motors[FwdCh(motor)] = 0 \/ motors[RevCh(motor)] = 0
    /\ \A ch \in PwmChannels : 0 <= motors[ch] /\ motors[ch] <= MaxDuty

\* backward(255) after forward(50), between the two writes of its first
\* set_motor: the left side is off, the right side still runs forward
C23_Witness ==
    /\ call.fn = "backward" /\ Len(call.writes) = 3
    /\ call.writes[1] = <<2, 800>>
    /\ motors = [ch \in PwmChannels |-> IF ch = 3 THEN 400 ELSE 0]

\* Every channel has been sampled since the last reset_calibration, which
\* leaves min = 4095 above max = 0
SampledSinceReset(s) == \A i \in Channels : s.min_readings[i] <= s.max_readings[i]

\* C24: LineFollowerRunning is entered only by the Calibrating tick that
\* finalizes the calibration; in every Running state the calibrated flag is
\* set and the calibration has been sampled since its last reset; while the
\* mode stays Running, min, max, thresholds and the flag are not modified.
C24_RunningCalibrated ==
    /\ [](mode = [tag |-> "LineFollowerRunning"] =>
             sensors.calibrated /\ SampledSinceReset(sensors))
    /\ [][/\ (mode # [tag |-> "LineFollowerRunning"] /\ mode' = [tag |-> "LineFollowerRunning"]) =>
                /\ LogicStep
                /\ mode.tag = "LineFollowerCalibrating"
                /\ tick' = "finalize"
                /\ SampledSinceReset(sensors)
                /\ ~sensors.calibrated /\ sensors'.calibrated
                /\ sensors'.min_readings = sensors.min_readings
                /\ sensors'.max_readings = sensors.max_readings
          /\ (mode = [tag |-> "LineFollowerRunning"] /\ mode' = [tag |-> "LineFollowerRunning"]) =>
                sensors' = sensors]_vars

\* A Running tick after the calibration that saw the line under sensor 7,
\* in an iteration that answered GetSensors
C24_Witness ==
    /\ pc = "sleep" /\ mode0 = LineFollowerRunning /\ mode = LineFollowerRunning
    /\ cmd = GetSensors /\ tick = "found"
    /\ sensors.calibrated
    /\ sensors.min_readings[6] = 300 /\ sensors.max_readings[6] = 3000

\* C25: when an iteration processes Motor{left,right} in LineFollowerRunning,
\* its logic step writes all four duties again: those of set_both for the
\* speeds it stores when the line is found, those of turn_left(55),
\* turn_right(55) or forward(50) when it is lost, whatever set_both(left,
\* right) had set. The logic step of Car, LineFollowerIdle and
\* LineFollowerCalibrating leaves the duties, so commanded duties persist.
C25_MotorOverride ==
    [][LogicStep =>
          /\ (mode = [tag |-> "LineFollowerRunning"] /\ cmd.tag = "Motor") =>
                /\ tick' \in {"found", "lost"}
                /\ tick' = "found" =>
                      motors' = SideDuties(tele'.last_left_speed)
                                \o SideDuties(tele'.last_right_speed)
                /\ tick' = "lost" =>
                      motors' = IF last_direction < 0 THEN SearchLeft
                                ELSE IF last_direction > 0 THEN SearchRight ELSE Crawl
          /\ mode.tag \in {"Car", "LineFollowerIdle", "LineFollowerCalibrating"} =>
                motors' = motors]_vars

\* Motor{50,-50} was processed while running and the line is lost: the
\* iteration ends with the duties of forward(50)
C25_Witness ==
    /\ pc = "sleep" /\ cmd = Motor(50, -50) /\ mode0 = LineFollowerRunning
    /\ mode = LineFollowerRunning /\ tick = "lost" /\ motors = Crawl

\* The bytes left when the payload of the command at the head of q is late:
\* the tag is consumed, and for Motor the first payload byte if it was in time
DropRest(q, outs) ==
    IF q[1] = 1 /\ outs[2] # ReadError /\ outs[2] < 50 THEN Tail(Tail(q)) ELSE Tail(q)

\* C26: when try_read_command drops a Motor or SetMode whose payload is late,
\* the bytes it consumed stay consumed and the late bytes stay unread; nothing
\* is ever put back into the input; a later try_read_command reads the first
\* unread byte as a command tag, so a late payload byte 0x02, 0x06 or 0x07 is
\* decoded as Stop, SetMode or Start.
C26_LateByteIsTag ==
    /\ [](\A o1 \in ReadOutcomes, o2 \in ReadOutcomes, o3 \in ReadOutcomes :
             (/\ pc = "poll" /\ rx # <<>> /\ rx[1] \in {1, 6} /\ Len(rx) >= WireLen(rx[1])
              /\ o1 # ReadError /\ o1 < TimeoutMs(mode)
              /\ PayloadLate(rx, <<o1, o2, o3>>)) =>
                 TryReadCommand(rx, TimeoutMs(mode), <<o1, o2, o3>>) =
                     [cmd |-> NoCmd, rest |-> DropRest(rx, <<o1, o2, o3>>)])
    /\ [][/\ Len(rx') <= Len(rx)
          /\ rx' = SubSeq(rx, Len(rx) - Len(rx') + 1, Len(rx))
          /\ (PollStep /\ rx # <<>> /\ Len(rx) < Len(call.packet) /\ cmd' # NoCmd) =>
                /\ rx[1] = 2 => cmd' = [tag |-> "Stop"]
                /\ rx[1] = 7 => cmd' = [tag |-> "Start"]
                /\ rx[1] = 6 => cmd' = [tag |-> "SetMode", m |-> rx[2]]
                /\ rx[1] = 50 => cmd' = [tag |-> "Unknown", byte |-> 50]
                /\ rx' = SubSeq(rx, WireLen(rx[1]) + 1, Len(rx))]_vars

\* SetMode was dropped in LineFollowerIdle with its mode byte 0x07 late; a
\* later iteration has read that byte as Start and begun a calibration
C26_Witness ==
    /\ call.packet = <<6, 7>> /\ rx = <<>> /\ pc = "logic"
    /\ cmd = Start /\ mode0 = LineFollowerIdle /\ mode.tag = "LineFollowerCalibrating"

\* The mask of the channels of frame f that read above thresholds th
RECURSIVE MaskAbove(_, _, _)
MaskAbove(f, th, chs) ==
    IF chs = {} THEN 0
    ELSE LET i == CHOOSE j \in chs : TRUE
         IN  (IF f[i] > th[i] THEN 2 ^ i ELSE 0) + MaskAbove(f, th, chs \ {i})

\* C27: the thresholds are 2000 at start-up and change only in the tick that
\* finalizes a calibration; reset_calibration (Start in LineFollowerIdle) sets
\* min to 4095, max to 0 and clears the flag but leaves the thresholds; every
\* GetSensors answer is computed with the thresholds of that moment: 2000
\* before the first finalize, those of the previous completed calibration
\* after Stop and during a recalibration.
C27_Thresholds ==
    /\ (mode = [tag |-> "Car"] => \A i \in Channels : sensors.thresholds[i] = 2000)
    /\ [][/\ sensors'.thresholds # sensors.thresholds => (LogicStep /\ tick' = "finalize")
          /\ (PollStep /\ cmd' = [tag |-> "Start"] /\ mode = [tag |-> "LineFollowerIdle"]) =>
                /\ sensors'.thresholds = sensors.thresholds
                /\ \A i \in Channels : sensors'.min_readings[i] = 4095
                                       /\ sensors'.max_readings[i] = 0
                /\ ~sensors'.calibrated
          /\ (PollStep /\ cmd' = [tag |-> "GetSensors"]) =>
                \E f \in RecalFrames :
                    sent' = << <<16, MaskAbove(f, sensors.thresholds, Channels)>> >>]_vars

\* During the recalibration that followed Stop and Start, with min and max
\* already sampled anew, GetSensors reports the line that reads 1500: the
\* thresholds are still the 940 of the completed calibration
C27_Witness ==
    /\ pc = "logic" /\ mode.tag = "LineFollowerCalibrating" /\ cmd = GetSensors
    /\ ~sensors.calibrated /\ sensors.max_readings[6] = 1500
    /\ sensors.thresholds[6] = 940 /\ sent = << <<16, 64>> >>

\* C28: a processed SetMode(m) with m in 2..255 does what SetMode(0) does: the
\* mode becomes Car and the four duties 0, from every mode; the calibration
\* is left and nothing is sent. No mode byte is rejected or ignored.
C28_AnyModeByte ==
    [][(PollStep /\ cmd'.tag = "SetMode" /\ cmd'.m \in 2 .. 255) =>
          /\ mode' = [tag |-> "Car"]
          /\ Stopped(motors')
          /\ sensors' = sensors /\ sent' = <<>>
          /\ last_direction' = last_direction /\ tele' = tele]_vars

\* SetMode(255) has taken the running line follower, motors driven, to Car
\* with the motors off
C28_Witness ==
    /\ pc = "logic" /\ cmd = SetMode(255) /\ mode0 = LineFollowerRunning
    /\ mode = Car /\ Stopped(motors) /\ tele.last_left_speed > 0

\* C29: the telemetry scalars fit their wire fields in every state: position
\* in -3500..3500, intensity 0 or in 500..8000, steering in -35..35, each speed
\* 0 or in 15..75. The speeds change only in a tick that finds the line, which
\* leaves both in 15..75 and both motors driven forward with the duty of that
\* speed, above the keep-alive duty, the reverse channels at 0.
C29_TelemetryRanges ==
    /\ [](/\ tele.last_weighted_pos \in -3500 .. 3500
          /\ tele.last_intensity = 0 \/ tele.last_intensity \in 500 .. 8000
          /\ tele.last_steering \in -35 .. 35
          /\ tele.last_left_speed = 0 \/ tele.last_left_speed \in 15 .. 75
          /\ tele.last_right_speed = 0 \/ tele.last_right_speed \in 15 .. 75)
    /\ [][/\ (tele'.last_left_speed # tele.last_left_speed
              \/ tele'.last_right_speed # tele.last_right_speed) =>
                (LogicStep /\ tick' = "found")
          /\ (LogicStep /\ tick' = "found") =>
                /\ tele'.last_left_speed \in 15 .. 75
                /\ tele'.last_right_speed \in 15 .. 75
                /\ motors'[1] = (MaxDuty * tele'.last_left_speed) \div 100
                /\ motors'[3] = (MaxDuty * tele'.last_right_speed) \div 100
                /\ motors'[1] > KeepAlive /\ motors'[3] > KeepAlive
                /\ motors'[2] = 0 /\ motors'[4] = 0]_vars

\* The line is under sensor 8: position 3500, steering 35, speeds 75 (85
\* capped) and 15
C29_Witness ==
    /\ pc = "sleep" /\ tick = "found" /\ tele.last_weighted_pos = 3500
    /\ tele.last_intensity = 1000 /\ tele.last_steering = 35
    /\ tele.last_left_speed = 75 /\ tele.last_right_speed = 15
    /\ motors = <<(MaxDuty * 75) \div 100, 0, (MaxDuty * 15) \div 100, 0>>

====
